---- MODULE Spec2Model ----
(***************************************************************************)
(* Continuous screen monitoring of ScreenScanner                           *)
(* (src/modules/screen_scanner.py): the start/stop handlers, the worker    *)
(* thread _monitor_screen_changes and the change classifier it calls.      *)
(*                                                                         *)
(* Texts are sequences of one-character strings.  Fractions (similarities, *)
(* confidences, thresholds) are exact rationals <<numerator, denominator>> *)
(* with a positive denominator; the frames of the model are chosen away    *)
(* from the thresholds, where floating point and exact arithmetic could    *)
(* disagree.                                                               *)
(***************************************************************************)
EXTENDS Integers, Sequences, FiniteSets, TLC

\* ------------------------------------------------------------------------
\* Bounds of the model
\* ------------------------------------------------------------------------

\* worker threads that start_continuous_monitoring may spawn in one behaviour
MaxWorkers == 2

\* cap of the consecutive-error counter for the failures that are counted
\* and never compared with the limit
MaxErrorCount == 5

\* ticks of the paired runs of SpecGating
MaxTicks == 4

\* length of the texts SpecNormalize normalizes
MaxTextLen == 4

\* ------------------------------------------------------------------------
\* Rational arithmetic
\* ------------------------------------------------------------------------

RLt(x, y) == x[1] * y[2] < y[1] * x[2]

RGe(x, y) == ~RLt(x, y)

ROneMinus(x) == <<x[2] - x[1], x[2]>>

Max(S) == CHOOSE m \in S : \A n \in S : n <= m

Min(S) == CHOOSE m \in S : \A n \in S : m <= n

\* ------------------------------------------------------------------------
\* Configuration (ScreenScanner.__init__)
\* ------------------------------------------------------------------------

_monitor_interval == 3

_similarity_threshold == <<85, 100>>

_visual_change_threshold == <<15, 100>>

_confidence_threshold == <<50, 100>>

max_consecutive_errors == 5

min_interval == 5

\* self._monitoring_thread.join(timeout=2)
join_timeout == 2

\* time.sleep(1) of the except clause
retry_pause == 1

\* ------------------------------------------------------------------------
\* Characters and words
\* ------------------------------------------------------------------------

UpperLetters == <<"A","B","C","D","E","F","G","H","I","J","K","L","M",
                  "N","O","P","Q","R","S","T","U","V","W","X","Y","Z">>

LowerLetters == <<"a","b","c","d","e","f","g","h","i","j","k","l","m",
                  "n","o","p","q","r","s","t","u","v","w","x","y","z">>

Digits == {"0","1","2","3","4","5","6","7","8","9"}

Whitespace == {" ", "\n", "\t"}

IsUpper(c) == \E k \in 1..26 : UpperLetters[k] = c

IsLower(c) == \E k \in 1..26 : LowerLetters[k] = c

\* str.lower() on one character
LowerChar(c) ==
    IF IsUpper(c) THEN LowerLetters[CHOOSE k \in 1..26 : UpperLetters[k] = c]
    ELSE c

\* str.lower()
Lower(text) == [k \in 1..Len(text) |-> LowerChar(text[k])]

IsAlnumChar(c) == IsUpper(c) \/ IsLower(c) \/ c \in Digits

\* str.isalnum(): non-empty and every character alphanumeric
IsAlnum(word) == Len(word) > 0 /\ \A k \in 1..Len(word) : IsAlnumChar(word[k])

RECURSIVE SplitOn(_, _, _)
\* the pieces of text between separator characters, empty pieces included;
\* cur is the piece being read
SplitOn(text, seps, cur) ==
    IF text = <<>> THEN <<cur>>
    ELSE IF Head(text) \in seps
         THEN <<cur>> \o SplitOn(Tail(text), seps, <<>>)
         ELSE SplitOn(Tail(text), seps, Append(cur, Head(text)))

\* str.split(): the maximal runs of non-whitespace characters
SplitWords(text) == SelectSeq(SplitOn(text, Whitespace, <<>>), LAMBDA w : w # <<>>)

\* str.split('\n')
SplitLines(text) == SplitOn(text, {"\n"}, <<>>)

RECURSIVE JoinWords(_)
\* ' '.join(words)
JoinWords(words) ==
    IF words = <<>> THEN <<>>
    ELSE IF Len(words) = 1 THEN words[1]
         ELSE words[1] \o <<" ">> \o JoinWords(Tail(words))

SeqToSet(s) == {s[k] : k \in 1..Len(s)}

\* ------------------------------------------------------------------------
\* _clean_text_for_comparison and its noise patterns
\* ------------------------------------------------------------------------

IsDigitAt(text, i) == i >= 1 /\ i <= Len(text) /\ text[i] \in Digits

IsSpaceAt(text, i) == i >= 1 /\ i <= Len(text) /\ text[i] \in Whitespace

IsCharAt(text, i, c) == i >= 1 /\ i <= Len(text) /\ text[i] = c

\* the literal lit occurs at position i of text, letter case ignored
LitAt(text, i, lit) ==
    /\ i + Len(lit) - 1 <= Len(text)
    /\ \A k \in 1..Len(lit) : LowerChar(text[i + k - 1]) = LowerChar(lit[k])

RECURSIVE DigitRun(_, _)
\* length of the maximal run of digits that starts at position i
DigitRun(text, i) == IF IsDigitAt(text, i) THEN 1 + DigitRun(text, i + 1) ELSE 0

\* Each XxxAt(text, i) is the length of the match of one noise pattern at
\* position i, 0 when the pattern does not match there.

\* r'\d{2}:\d{2}:\d{2}'
TimestampAt(text, i) ==
    IF /\ IsDigitAt(text, i) /\ IsDigitAt(text, i + 1) /\ IsCharAt(text, i + 2, ":")
       /\ IsDigitAt(text, i + 3) /\ IsDigitAt(text, i + 4) /\ IsCharAt(text, i + 5, ":")
       /\ IsDigitAt(text, i + 6) /\ IsDigitAt(text, i + 7)
    THEN 8 ELSE 0

\* (AM|PM) at position p, after the optional whitespace of the clock pattern
MeridiemAt(text, p) == LitAt(text, p, <<"A","M">>) \/ LitAt(text, p, <<"P","M">>)

\* the clock pattern tried with exactly nd hour digits
ClockWith(text, i, nd) ==
    IF /\ \A k \in 0..(nd - 1) : IsDigitAt(text, i + k)
       /\ IsCharAt(text, i + nd, ":")
       /\ IsDigitAt(text, i + nd + 1) /\ IsDigitAt(text, i + nd + 2)
    THEN IF IsSpaceAt(text, i + nd + 3) /\ MeridiemAt(text, i + nd + 4)
         THEN nd + 6
         ELSE IF MeridiemAt(text, i + nd + 3) THEN nd + 5 ELSE 0
    ELSE 0

\* r'\d{1,2}:\d{2}\s?(AM|PM)': two hour digits are tried before one
ClockAt(text, i) ==
    IF ClockWith(text, i, 2) > 0 THEN ClockWith(text, i, 2) ELSE ClockWith(text, i, 1)

\* r'(\d+)\s?%'
PercentAt(text, i) ==
    LET n == DigitRun(text, i)
    IN  IF n = 0 THEN 0
        ELSE IF IsSpaceAt(text, i + n) /\ IsCharAt(text, i + n + 1, "%") THEN n + 2
        ELSE IF IsCharAt(text, i + n, "%") THEN n + 1
        ELSE 0

\* r'(\d+)/(\d+)'
CountAt(text, i) ==
    LET n == DigitRun(text, i)
        m == DigitRun(text, i + n + 1)
    IN  IF n > 0 /\ IsCharAt(text, i + n, "/") /\ m > 0 THEN n + 1 + m ELSE 0

\* r'[|\\/-]'
AnimationAt(text, i) == IF text[i] \in {"|", "\\", "/", "-"} THEN 1 ELSE 0

\* the six glyphs of r'●○◐◑◒◓', each named by its code point
LoadingDots == <<"U+25CF", "U+25CB", "U+25D0", "U+25D1", "U+25D2", "U+25D3">>

\* r'●○◐◑◒◓': the six glyphs in this order, not a character class
DotsAt(text, i) == IF LitAt(text, i, LoadingDots) THEN 6 ELSE 0

\* r'Typing\.\.\.'
TypingAt(text, i) ==
    IF LitAt(text, i, <<"T","y","p","i","n","g",".",".",".">>) THEN 9 ELSE 0

\* r'Online|Offline|Away|Busy': the first alternative that matches wins
StatusAt(text, i) ==
    IF LitAt(text, i, <<"O","n","l","i","n","e">>) THEN 6
    ELSE IF LitAt(text, i, <<"O","f","f","l","i","n","e">>) THEN 7
    ELSE IF LitAt(text, i, <<"A","w","a","y">>) THEN 4
    ELSE IF LitAt(text, i, <<"B","u","s","y">>) THEN 4
    ELSE 0

\* self._noise_patterns, in the order of the list
_noise_patterns ==
    <<"timestamp", "clock", "percent", "count", "animation", "dots", "typing",
      "status">>

\* the length of the match of a noise pattern at position i, 0 for none
MatchAt(pattern, text, i) ==
    CASE pattern = "timestamp" -> TimestampAt(text, i)
      [] pattern = "clock"     -> ClockAt(text, i)
      [] pattern = "percent"   -> PercentAt(text, i)
      [] pattern = "count"     -> CountAt(text, i)
      [] pattern = "animation" -> AnimationAt(text, i)
      [] pattern = "dots"      -> DotsAt(text, i)
      [] pattern = "typing"    -> TypingAt(text, i)
      [] pattern = "status"    -> StatusAt(text, i)

RECURSIVE ReSubFrom(_, _, _)
\* re.sub(pattern, '', text) from position i on: the leftmost match is
\* removed and the scan resumes after it
ReSubFrom(pattern, text, i) ==
    IF i > Len(text) THEN <<>>
    ELSE LET n == MatchAt(pattern, text, i)
         IN  IF n > 0 THEN ReSubFrom(pattern, text, i + n)
             ELSE <<text[i]>> \o ReSubFrom(pattern, text, i + 1)

ReSub(pattern, text) == ReSubFrom(pattern, text, 1)

RECURSIVE RemoveNoiseFrom(_, _)
\* the loop over self._noise_patterns from the k-th pattern on
RemoveNoiseFrom(k, text) ==
    IF k > Len(_noise_patterns) THEN text
    ELSE RemoveNoiseFrom(k + 1, ReSub(_noise_patterns[k], text))

RemoveNoise(text) == RemoveNoiseFrom(1, text)

RECURSIVE CollapseFrom(_, _)
\* re.sub(r'\s+', ' ', text) from position i on
CollapseFrom(text, i) ==
    IF i > Len(text) THEN <<>>
    ELSE IF text[i] \in Whitespace
         THEN IF IsSpaceAt(text, i + 1) THEN CollapseFrom(text, i + 1)
              ELSE <<" ">> \o CollapseFrom(text, i + 1)
         ELSE <<text[i]>> \o CollapseFrom(text, i + 1)

CollapseWhitespace(text) == CollapseFrom(text, 1)

\* joining words with single spaces leaves nothing for strip() to remove
_clean_text_for_comparison(text) ==
    IF text = <<>> THEN <<>>
    ELSE LET cleaned == CollapseWhitespace(RemoveNoise(text))
             words == SplitWords(cleaned)
             filtered_words == SelectSeq(words, LAMBDA word : Len(word) > 2 \/ IsAlnum(word))
         IN  Lower(JoinWords(filtered_words))

\* ------------------------------------------------------------------------
\* difflib.SequenceMatcher(None, a, b).ratio()
\* Without a junk predicate, and below the 200 elements at which autojunk
\* starts, every element of b is indexed.
\* ------------------------------------------------------------------------

RECURSIVE RunLen(_, _, _, _, _, _)
\* length of the common run of a[i..ahi] and b[j..bhi] that starts at (i, j)
RunLen(a, b, i, j, ahi, bhi) ==
    IF i > ahi \/ j > bhi THEN 0
    ELSE IF a[i] # b[j] THEN 0
    ELSE 1 + RunLen(a, b, i + 1, j + 1, ahi, bhi)

\* find_longest_match on a[alo..ahi], b[blo..bhi]: the longest matching block
\* <<i, j, size>>, of those the one starting earliest in a, of those the one
\* starting earliest in b
find_longest_match(a, b, alo, ahi, blo, bhi) ==
    LET cands == (alo..ahi) \X (blo..bhi)
        size(c) == RunLen(a, b, c[1], c[2], ahi, bhi)
        bestsize == IF cands = {} THEN 0 ELSE Max({size(c) : c \in cands})
    IN  IF bestsize = 0 THEN <<alo, blo, 0>>
        ELSE LET best == {c \in cands : size(c) = bestsize}
                 besti == Min({c[1] : c \in best})
                 bestj == Min({c[2] : c \in {d \in best : d[1] = besti}})
             IN  <<besti, bestj, bestsize>>

RECURSIVE MatchedElements(_, _, _, _, _, _)
\* get_matching_blocks: the sizes of the longest block and of the blocks
\* found to its left and to its right, added up
MatchedElements(a, b, alo, ahi, blo, bhi) ==
    IF alo > ahi \/ blo > bhi THEN 0
    ELSE LET m == find_longest_match(a, b, alo, ahi, blo, bhi)
         IN  IF m[3] = 0 THEN 0
             ELSE m[3] + MatchedElements(a, b, alo, m[1] - 1, blo, m[2] - 1)
                       + MatchedElements(a, b, m[1] + m[3], ahi, m[2] + m[3], bhi)

\* ratio(): 2.0 * matches / (len(a) + len(b)), 1.0 for two empty sequences
SequenceMatcherRatio(a, b) ==
    IF Len(a) + Len(b) = 0 THEN <<1, 1>>
    ELSE <<2 * MatchedElements(a, b, 1, Len(a), 1, Len(b)), Len(a) + Len(b)>>

\* ------------------------------------------------------------------------
\* Similarity metrics
\* ------------------------------------------------------------------------

_calculate_text_similarity(text1, text2) ==
    IF text1 = <<>> \/ text2 = <<>> THEN <<0, 1>>
    ELSE LET similarity == SequenceMatcherRatio(text1, text2)
             words1 == SeqToSet(SplitWords(text1))
             words2 == SeqToSet(SplitWords(text2))
             inter == Cardinality(words1 \cap words2)
             union == Cardinality(words1 \cup words2)
         IN  IF words1 # {} /\ words2 # {}
             \* similarity * 0.7 + word_similarity * 0.3
             THEN <<7 * similarity[1] * union + 3 * inter * similarity[2],
                    10 * similarity[2] * union>>
             ELSE similarity

Abs(n) == IF n < 0 THEN -n ELSE n

_calculate_structure_similarity(text1, text2) ==
    IF text1 = <<>> \/ text2 = <<>> THEN <<0, 1>>
    ELSE LET lines1 == SplitLines(text1)
             lines2 == SplitLines(text2)
             most == Max({Len(lines1), Len(lines2), 1})
             \* 1 - abs(len(lines1) - len(lines2)) / max(...)
             line_count_similarity == <<most - Abs(Len(lines1) - Len(lines2)), most>>
             lens1 == [k \in 1..Len(lines1) |-> Len(lines1[k])]
             lens2 == [k \in 1..Len(lines2) |-> Len(lines2[k])]
             \* split() never returns an empty list, so the ratio is always taken
             structure_similarity == SequenceMatcherRatio(lens1, lens2)
         \* line_count_similarity * 0.3 + structure_similarity * 0.7
         IN  <<3 * line_count_similarity[1] * structure_similarity[2]
                 + 7 * structure_similarity[1] * line_count_similarity[2],
               10 * line_count_similarity[2] * structure_similarity[2]>>

\* re.search(pattern, text) for a literal pattern: case-sensitive containment
Contains(text, pattern) ==
    \E i \in 1..Len(text) :
        /\ i + Len(pattern) - 1 <= Len(text)
        /\ \A k \in 1..Len(pattern) : text[i + k - 1] = pattern[k]

\* the indicators dict, in insertion order: <<category, patterns>>
Indicators ==
    << <<"new_page", <<<<"L","o","a","d","i","n","g">>,
            <<"W","e","l","c","o","m","e"," ","t","o">>,
            <<"S","i","g","n"," ","i","n">>,
            <<"L","o","g","i","n">>,
            <<"H","o","m","e">>,
            <<"D","a","s","h","b","o","a","r","d">>>> >>,
       <<"navigation", <<<<"B","a","c","k"," ","t","o">>,
            <<"G","o"," ","t","o">>,
            <<"N","a","v","i","g","a","t","e"," ","t","o">>,
            <<"S","w","i","t","c","h"," ","t","o">>>> >>,
       <<"errors", <<<<"E","r","r","o","r">>,
            <<"F","a","i","l","e","d">>,
            <<"U","n","a","b","l","e"," ","t","o">>,
            <<"N","o","t"," ","f","o","u","n","d">>,
            <<"A","c","c","e","s","s"," ","d","e","n","i","e","d">>>> >>,
       <<"completion", <<<<"C","o","m","p","l","e","t","e">>,
            <<"F","i","n","i","s","h","e","d">>,
            <<"S","u","c","c","e","s","s">>,
            <<"D","o","n","e">>,
            <<"S","a","v","e","d">>>> >>,
       <<"forms", <<<<"S","u","b","m","i","t">>,
            <<"E","n","t","e","r">>,
            <<"R","e","q","u","i","r","e","d">>,
            <<"P","l","e","a","s","e"," ","f","i","l","l">>,
            <<"F","o","r","m">>>> >> >>

IsLetter(c) == IsUpper(c) \/ IsLower(c)

\* The tag, document.title and URL patterns of _detect_url_or_title_change
\* (the first, second, fourth, fifth and sixth) can match only in a text with
\* a '<', a '/', or a '.' that is followed by a character other than
\* whitespace.
MayMatchUrlOrTag(text) ==
    \E i \in 1..Len(text) :
        \/ text[i] \in {"<", "/"}
        \/ text[i] = "." /\ i < Len(text) /\ text[i + 1] \notin Whitespace

\* (?:\||—|-), the em dash written "U+2014"
TitleSeparators == {"|", "U+2014", "-"}

\* the first letter of text after position i, 0 if there is none
NextLetter(text, i) ==
    IF \E k \in (i + 1)..Len(text) : IsLetter(text[k])
    THEN Min({k \in (i + 1)..Len(text) : IsLetter(text[k])})
    ELSE 0

\* the first separator of text after position i, 0 if there is none
NextSeparator(text, i) ==
    IF \E k \in (i + 1)..Len(text) : text[k] \in TitleSeparators
    THEN Min({k \in (i + 1)..Len(text) : text[k] \in TitleSeparators})
    ELSE 0

\* '.' matches every character of text from a to b: none is a newline
DotMatches(text, a, b) == \A k \in a..b : text[k] # "\n"

\* The title-like pattern [A-Z][^a-z]*[A-Z].*?(?:\||—|-).*?[A-Z] under
\* re.IGNORECASE: where its match from position i ends, 0 if it has none.
\* A letter, everything up to the next letter, the shortest stretch to a
\* separator and the shortest stretch to a letter, the two stretches within
\* one line.
TitleEnd(text, i) ==
    IF ~IsLetter(text[i]) THEN 0
    ELSE LET second == NextLetter(text, i)
             separator == IF second = 0 THEN 0 ELSE NextSeparator(text, second)
             last == IF separator = 0 THEN 0 ELSE NextLetter(text, separator)
         IN  IF /\ last # 0
                /\ DotMatches(text, second + 1, separator - 1)
                /\ DotMatches(text, separator + 1, last - 1)
             THEN last
             ELSE 0

RECURSIVE TitleFindAll(_, _)
\* set(re.findall(...)) of the title-like pattern in text from position p on
TitleFindAll(text, p) ==
    IF \A i \in p..Len(text) : TitleEnd(text, i) = 0 THEN {}
    ELSE LET i == Min({k \in p..Len(text) : TitleEnd(text, k) # 0})
             e == TitleEnd(text, i)
         IN  {SubSeq(text, i, e)} \cup TitleFindAll(text, e + 1)

\* On texts in which only the title-like pattern can match, the sets of its
\* matches are compared, the other five being empty for both texts.  On the
\* other texts the model takes every difference of the texts for a change
\* (none of the texts it is applied to is one of them).
_detect_url_or_title_change(current_text, last_text) ==
    IF MayMatchUrlOrTag(current_text) \/ MayMatchUrlOrTag(last_text)
    THEN current_text # last_text
    ELSE TitleFindAll(current_text, 1) # TitleFindAll(last_text, 1)

\* the number of a category's patterns found in text
IndicatorMatches(patterns, text) ==
    Cardinality({k \in 1..Len(patterns) : Contains(text, patterns[k])})

RECURSIVE SemanticTenths(_, _, _)
\* the confidence the loop over the categories k..5 accumulates, in tenths
SemanticTenths(k, current_lower, last_lower) ==
    IF k > Len(Indicators) THEN 0
    ELSE LET current_matches == IndicatorMatches(Indicators[k][2], current_lower)
             last_matches == IndicatorMatches(Indicators[k][2], last_lower)
             rest == SemanticTenths(k + 1, current_lower, last_lower)
         IN  IF current_matches > last_matches THEN 2 + rest
             ELSE IF current_matches < last_matches /\ last_matches > 0 THEN 1 + rest
             ELSE rest

\* The patterns are searched as written, capitals included, in the
\* lower-cased texts.
_detect_semantic_changes(current_text, last_text) ==
    LET tenths == SemanticTenths(1, Lower(current_text), Lower(last_text))
                  + (IF _detect_url_or_title_change(current_text, last_text) THEN 3 ELSE 0)
    IN  [has_major_changes |-> tenths > 3,
         confidence |-> <<Min({tenths, 10}), 10>>]

\* ------------------------------------------------------------------------
\* _analyze_screen_change
\* ------------------------------------------------------------------------

\* the classification without the test of the text similarity against 0.3
_analyze_screen_change_NoMajorContent(current_text, last_screen_text) ==
    IF last_screen_text = <<>> \/ current_text = <<>>
    THEN [is_significant |-> TRUE, is_major |-> TRUE,
          type |-> "initial_capture", confidence |-> <<1, 1>>]
    ELSE LET clean_current == _clean_text_for_comparison(current_text)
             clean_last == _clean_text_for_comparison(last_screen_text)
             text_similarity == _calculate_text_similarity(clean_current, clean_last)
             structure_similarity ==
                 _calculate_structure_similarity(current_text, last_screen_text)
             semantic_changes == _detect_semantic_changes(current_text, last_screen_text)
         IN  IF RLt(structure_similarity, <<4, 10>>)
             THEN [is_significant |-> TRUE, is_major |-> TRUE,
                   type |-> "layout_change",
                   confidence |-> ROneMinus(structure_similarity)]
             ELSE IF semantic_changes.has_major_changes
             THEN [is_significant |-> TRUE, is_major |-> TRUE,
                   type |-> "semantic_change",
                   confidence |-> semantic_changes.confidence]
             ELSE IF RLt(text_similarity, _similarity_threshold)
             THEN [is_significant |-> TRUE, is_major |-> FALSE,
                   type |-> "content_update",
                   confidence |->
                       <<(_similarity_threshold[1] * text_similarity[2]
                            - text_similarity[1] * _similarity_threshold[2]),
                         _similarity_threshold[1] * text_similarity[2]>>]
             ELSE [is_significant |-> FALSE, is_major |-> FALSE,
                   type |-> "minor_change", confidence |-> <<0, 1>>]

\* the classification with the test of the layout before the test of the
\* content
_analyze_screen_change_LayoutFirst(current_text, last_screen_text) ==
    IF last_screen_text = <<>> \/ current_text = <<>>
    THEN [is_significant |-> TRUE, is_major |-> TRUE,
          type |-> "initial_capture", confidence |-> <<1, 1>>]
    ELSE LET clean_current == _clean_text_for_comparison(current_text)
             clean_last == _clean_text_for_comparison(last_screen_text)
             text_similarity == _calculate_text_similarity(clean_current, clean_last)
             structure_similarity ==
                 _calculate_structure_similarity(current_text, last_screen_text)
         IN  IF RLt(structure_similarity, <<4, 10>>)
             THEN [is_significant |-> TRUE, is_major |-> TRUE,
                   type |-> "layout_change",
                   confidence |-> ROneMinus(structure_similarity)]
             ELSE IF RLt(text_similarity, <<3, 10>>)
             THEN [is_significant |-> TRUE, is_major |-> TRUE,
                   type |-> "major_content_change",
                   confidence |-> ROneMinus(text_similarity)]
             ELSE IF _detect_semantic_changes(current_text, last_screen_text).has_major_changes
             THEN [is_significant |-> TRUE, is_major |-> TRUE,
                   type |-> "semantic_change",
                   confidence |->
                       _detect_semantic_changes(current_text, last_screen_text).confidence]
             ELSE IF RLt(text_similarity, _similarity_threshold)
             THEN [is_significant |-> TRUE, is_major |-> FALSE,
                   type |-> "content_update",
                   confidence |->
                       <<(_similarity_threshold[1] * text_similarity[2]
                            - text_similarity[1] * _similarity_threshold[2]),
                         _similarity_threshold[1] * text_similarity[2]>>]
             ELSE [is_significant |-> FALSE, is_major |-> FALSE,
                   type |-> "minor_change", confidence |-> <<0, 1>>]

\* last_screen_text is self._last_screen_text at the time of the call; None
\* and '' are both the empty sequence, as the code only tests them for truth.
\* The analysis keeps the fields the monitor reads.
_analyze_screen_change(current_text, last_screen_text) ==
    IF last_screen_text = <<>> \/ current_text = <<>>
    THEN [is_significant |-> TRUE, is_major |-> TRUE,
          type |-> "initial_capture", confidence |-> <<1, 1>>]
    ELSE LET clean_current == _clean_text_for_comparison(current_text)
             clean_last == _clean_text_for_comparison(last_screen_text)
             text_similarity == _calculate_text_similarity(clean_current, clean_last)
             structure_similarity ==
                 _calculate_structure_similarity(current_text, last_screen_text)
             semantic_changes == _detect_semantic_changes(current_text, last_screen_text)
         IN  IF RLt(text_similarity, <<3, 10>>)
             THEN [is_significant |-> TRUE, is_major |-> TRUE,
                   type |-> "major_content_change",
                   confidence |-> ROneMinus(text_similarity)]
             ELSE IF RLt(structure_similarity, <<4, 10>>)
             THEN [is_significant |-> TRUE, is_major |-> TRUE,
                   type |-> "layout_change",
                   confidence |-> ROneMinus(structure_similarity)]
             ELSE IF semantic_changes.has_major_changes
             THEN [is_significant |-> TRUE, is_major |-> TRUE,
                   type |-> "semantic_change",
                   confidence |-> semantic_changes.confidence]
             ELSE IF RLt(text_similarity, _similarity_threshold)
             \* (threshold - text_similarity) / threshold
             THEN [is_significant |-> TRUE, is_major |-> FALSE,
                   type |-> "content_update",
                   confidence |->
                       <<(_similarity_threshold[1] * text_similarity[2]
                            - text_similarity[1] * _similarity_threshold[2]),
                         _similarity_threshold[1] * text_similarity[2]>>]
             ELSE [is_significant |-> FALSE, is_major |-> FALSE,
                   type |-> "minor_change", confidence |-> <<0, 1>>]

\* ------------------------------------------------------------------------
\* _has_significant_visual_change
\* ------------------------------------------------------------------------

\* the visual gate that lets every frame that differs through to OCR
_has_significant_visual_change_AnyDifference(current_visual_hash, last_visual_hash) ==
    current_visual_hash # last_visual_hash \/ current_visual_hash = <<>>

\* A visual hash is the sequence of the 16 characters of the digest prefix;
\* '' (hashing failed) and None (no baseline yet) are the empty sequence,
\* as the code only tests them for truth.
HammingDistance(h1, h2) == Cardinality({k \in 1..Len(h1) : h1[k] # h2[k]})

_has_significant_visual_change(current_visual_hash, last_visual_hash) ==
    IF last_visual_hash = <<>> \/ current_visual_hash = <<>> THEN TRUE
    ELSE IF current_visual_hash = last_visual_hash THEN FALSE
    ELSE IF Len(current_visual_hash) = Len(last_visual_hash)
         \* similarity = 1 - hamming_distance / len; similarity < 1 - threshold
         THEN RLt(<<Len(current_visual_hash)
                      - HammingDistance(current_visual_hash, last_visual_hash),
                    Len(current_visual_hash)>>,
                  ROneMinus(_visual_change_threshold))
         ELSE TRUE

\* the gate without the test of the confidence
NotifyGate_NoConfidence(analysis, elapsed) ==
    analysis.is_major \/ elapsed >= min_interval

\* the gate without the cooldown
NotifyGate_NoCooldown(analysis, elapsed) ==
    RGe(analysis.confidence, _confidence_threshold)

\* the gate that holds major changes to the cooldown too
NotifyGate_NoBypass(analysis, elapsed) ==
    RGe(analysis.confidence, _confidence_threshold) /\ elapsed >= min_interval

\* ------------------------------------------------------------------------
\* The notification gate of _monitor_screen_changes
\* ------------------------------------------------------------------------

NotifyGate(analysis, time_since_last) ==
    /\ RGe(analysis.confidence, _confidence_threshold)
    /\ (analysis.is_major \/ time_since_last >= min_interval)

\* ------------------------------------------------------------------------
\* The screen: what capture_full_screen, _calculate_visual_hash and
\* extract_text_from_image return for the frames the model shows
\* ------------------------------------------------------------------------

Frames == 1..4

\* the text OCR reads from each frame
\*   1 "ab cd 4%"   2 "ab ef 4%"   3 "ef gh 4%"   4 "ab cd 5%"
FrameText ==
    << <<"a","b"," ","c","d"," ","4","%">>,
       <<"a","b"," ","e","f"," ","4","%">>,
       <<"e","f"," ","g","h"," ","4","%">>,
       <<"a","b"," ","c","d"," ","5","%">> >>

\* hexdigest()[:16]
HashLen == 16

\* the digest prefix of each frame: frame 2 differs from frame 1 in two
\* characters, frame 4 from frame 1 in three, frame 3 from all in sixteen
FrameHash ==
    << [k \in 1..HashLen |-> "0"],
       [k \in 1..HashLen |-> IF k <= 2 THEN "1" ELSE "0"],
       [k \in 1..HashLen |-> "2"],
       [k \in 1..HashLen |-> IF k <= 3 THEN "3" ELSE "0"] >>

\* the text extract_text_from_image returns when OCR raises
OCR_ERROR == <<"O","C","R","_","E","R","R","O","R",":">>

\* str.startswith
StartsWith(text, prefix) ==
    Len(text) >= Len(prefix) /\ SubSeq(text, 1, Len(prefix)) = prefix

\* the callback a caller may register; "None" is no callback
Callbacks == {"on_change"}

Workers == 1..MaxWorkers

\* no paired runs
NoRuns == <<>>

\* change_analysis before the analysis of an iteration
NoAnalysis ==
    [is_significant |-> FALSE, is_major |-> FALSE, type |-> "unset",
     confidence |-> <<0, 1>>]

\* ------------------------------------------------------------------------
\* State
\*
\* Time.  The code reads time.time() and compares differences of readings
\* with fixed spans.  The model keeps the differences, not the readings: a
\* span that is over stays over, so each is counted up to the span it is
\* compared with and no further.
\* ------------------------------------------------------------------------

VARIABLES
    tesseract_available,   \* set once by __init__
    _monitoring_active,
    _stop_monitoring,      \* the threading.Event: TRUE when set
    _monitoring_thread,    \* the worker last spawned, 0 for None
    _change_callback,      \* a callback or "None"
    _last_screen_text,     \* baseline text, <<>> for ''
    _last_visual_hash,     \* baseline fingerprint, <<>> for None or ''
    caller_pc,             \* where the thread calling start/stop is
    join_left,             \* seconds left of the join(timeout=2) of stop
    pc,                    \* where each worker thread is
    consecutive_errors,    \* locals of _monitor_screen_changes, per worker
    since_last_major_change, \* time.time() - last_major_change, up to min_interval
    current_image,         \* a frame, 0 for None
    visual_hash,
    current_text,          \* <<>> for None
    change_analysis,
    time_since_last,
    wait_left,             \* seconds left of the worker's wait or sleep
    tick_result,           \* history: how each worker's last iteration ended,
                           \* "none" from the capture of the next one on
    major_notified,        \* history: the change last_major_change is the time
                           \* of was major and the callback was invoked for it
    runs                   \* the monitor run twice on the same frames and tick
                           \* times, under two values of confidence_threshold
                           \* (used by SpecGating only)

vars ==
    <<tesseract_available, _monitoring_active, _stop_monitoring, _monitoring_thread,
      _change_callback, _last_screen_text, _last_visual_hash,
      caller_pc, join_left, pc, consecutive_errors, since_last_major_change,
      current_image, visual_hash, current_text, change_analysis, time_since_last,
      wait_left, tick_result, major_notified, runs>>

shared ==
    <<tesseract_available, _monitoring_active, _stop_monitoring, _monitoring_thread,
      _change_callback>>

baseline == <<_last_screen_text, _last_visual_hash>>

caller == <<caller_pc, join_left>>

locals == <<current_image, visual_hash, current_text, change_analysis, time_since_last>>

history == <<tick_result, major_notified>>

\* The write-only fields (_last_screen_hash, _text_history, _visual_history,
\* _change_timestamps) are never read by the program and are left out.

\* last_major_change = 0 is further than min_interval behind any reading of
\* the clock.
Init ==
    /\ tesseract_available \in BOOLEAN
    /\ _monitoring_active = FALSE
    /\ _stop_monitoring = FALSE
    /\ _monitoring_thread = 0
    /\ _change_callback = "None"
    /\ _last_screen_text = <<>>
    /\ _last_visual_hash = <<>>
    /\ caller_pc = "idle"
    /\ join_left = 0
    /\ pc = [w \in Workers |-> "unborn"]
    /\ consecutive_errors = [w \in Workers |-> 0]
    /\ since_last_major_change = [w \in Workers |-> min_interval]
    /\ current_image = [w \in Workers |-> 0]
    /\ visual_hash = [w \in Workers |-> <<>>]
    /\ current_text = [w \in Workers |-> <<>>]
    /\ change_analysis = [w \in Workers |-> NoAnalysis]
    /\ time_since_last = [w \in Workers |-> 0]
    /\ wait_left = [w \in Workers |-> 0]
    /\ tick_result = [w \in Workers |-> "none"]
    /\ major_notified = [w \in Workers |-> FALSE]
    /\ runs = NoRuns

\* ------------------------------------------------------------------------
\* The environment
\* ------------------------------------------------------------------------

\* time.time() advances by so many seconds
TimePasses(seconds) ==
    /\ since_last_major_change' =
           [w \in Workers |->
               Min({since_last_major_change[w] + seconds, min_interval})]
    /\ wait_left' = [w \in Workers |-> Max({wait_left[w] - seconds, 0})]
    /\ join_left' = Max({join_left - seconds, 0})
    /\ UNCHANGED <<runs, shared, baseline, caller_pc, pc, consecutive_errors,
                   locals, history>>

\* ------------------------------------------------------------------------
\* start_continuous_monitoring
\* ------------------------------------------------------------------------

\* What a call of start_continuous_monitoring gives its caller on each of
\* its three paths: the bare return of line 883 (already active), the bare
\* return of line 887 (Tesseract not available) and the end of the body
\* (line 904) all return None, and none of them raises.
start_continuous_monitoring(monitoring_active, available) ==
    IF monitoring_active THEN "None"
    ELSE IF ~available THEN "None"
    ELSE "None"

\* the two early returns: already active, or Tesseract not available
StartIgnored ==
    /\ caller_pc = "idle"
    /\ _monitoring_active \/ ~tesseract_available
    /\ UNCHANGED vars

\* start_continuous_monitoring without its two early returns
StartBegin_NoEarlyReturn(change_callback) ==
    /\ caller_pc = "idle"
    /\ _monitoring_thread < MaxWorkers
    /\ _change_callback' = change_callback
    /\ _monitoring_active' = TRUE
    /\ _stop_monitoring' = FALSE
    /\ caller_pc' = "start"
    /\ UNCHANGED <<runs, tesseract_available, _monitoring_thread, baseline,
                   join_left, pc, consecutive_errors, since_last_major_change, locals,
                   wait_left, history>>

\* the callback and the flags are set
StartBegin(change_callback) ==
    /\ caller_pc = "idle"
    /\ ~_monitoring_active
    /\ tesseract_available
    /\ _monitoring_thread < MaxWorkers
    /\ _change_callback' = change_callback
    /\ _monitoring_active' = TRUE
    /\ _stop_monitoring' = FALSE
    /\ caller_pc' = "start"
    /\ UNCHANGED <<runs, tesseract_available, _monitoring_thread, baseline, 
                   join_left, pc, consecutive_errors, since_last_major_change, locals,
                   wait_left, history>>

\* _update_baseline_screen_data
_update_baseline_screen_data(text, hash) ==
    /\ _last_screen_text' = text
    /\ _last_visual_hash' = hash

\* _update_baseline_screen on the caller's thread, then the thread is
\* created and started.  frame is what capture_full_screen returns: the
\* frame on the screen, or 0 for None.  The baseline is set when the capture
\* and the OCR of it succeed (hash is then the frame's digest, or '' when
\* hashing failed).
StartSpawn(frame, ocr_ok, hash_ok) ==
    /\ caller_pc = "start"
    /\ IF frame # 0 /\ ocr_ok
       THEN _update_baseline_screen_data(FrameText[frame],
                                         IF hash_ok THEN FrameHash[frame] ELSE <<>>)
       ELSE UNCHANGED baseline
    /\ _monitoring_thread' = _monitoring_thread + 1
    /\ pc' = [pc EXCEPT ![_monitoring_thread + 1] = "loop"]
    /\ caller_pc' = "idle"
    /\ UNCHANGED <<runs, tesseract_available, _monitoring_active, _stop_monitoring,
                   _change_callback, join_left, consecutive_errors,
                   since_last_major_change, locals, wait_left, history>>

\* ------------------------------------------------------------------------
\* stop_continuous_monitoring
\* ------------------------------------------------------------------------

\* self._monitoring_thread and self._monitoring_thread.is_alive()
ThreadAlive == _monitoring_thread # 0 /\ pc[_monitoring_thread] # "done"

\* stop_continuous_monitoring without its early return, on a scanner that is
\* not active: the event is set and the callback cleared once more
StopIgnored_NoEarlyReturn ==
    /\ caller_pc = "idle"
    /\ ~_monitoring_active
    /\ _stop_monitoring' = TRUE
    /\ _change_callback' = "None"
    /\ UNCHANGED <<runs, tesseract_available, _monitoring_active, _monitoring_thread,
                   baseline, caller, pc, consecutive_errors, since_last_major_change,
                   locals, wait_left, history>>

\* the early return: not active
StopIgnored ==
    /\ caller_pc = "idle"
    /\ ~_monitoring_active
    /\ UNCHANGED vars

\* the flags are set; a thread that is alive is joined, otherwise the
\* callback is cleared at once
StopBegin ==
    /\ caller_pc = "idle"
    /\ _monitoring_active
    /\ _monitoring_active' = FALSE
    /\ _stop_monitoring' = TRUE
    /\ IF ThreadAlive
       THEN /\ caller_pc' = "join"
            /\ join_left' = join_timeout
            /\ UNCHANGED _change_callback
       ELSE /\ _change_callback' = "None"
            /\ UNCHANGED caller
    /\ UNCHANGED <<runs, tesseract_available, _monitoring_thread, baseline, 
                   pc, consecutive_errors, since_last_major_change, locals, wait_left,
                   history>>

\* join returns, because the thread ended or because the 2 seconds are over,
\* and the callback is cleared
StopJoined ==
    /\ caller_pc = "join"
    /\ ~ThreadAlive \/ join_left = 0
    /\ _change_callback' = "None"
    /\ caller_pc' = "idle"
    /\ join_left' = 0
    /\ UNCHANGED <<runs, tesseract_available, _monitoring_active, _stop_monitoring,
                   _monitoring_thread, baseline, pc, consecutive_errors,
                   since_last_major_change, locals, wait_left, history>>

\* ------------------------------------------------------------------------
\* _monitor_screen_changes, the worker thread w
\*
\* current_image, visual_hash, current_text, change_analysis and
\* time_since_last are locals of one iteration: they are assigned before they
\* are read in every iteration, and the model forgets them when the iteration
\* ends.
\* ------------------------------------------------------------------------

\* the end of an iteration: on to self._stop_monitoring.wait(interval)
EndIteration(w, result) ==
    /\ pc' = [pc EXCEPT ![w] = "wait"]
    /\ tick_result' = [tick_result EXCEPT ![w] = result]
    /\ wait_left' = [wait_left EXCEPT ![w] = _monitor_interval]
    /\ current_image' = [current_image EXCEPT ![w] = 0]
    /\ visual_hash' = [visual_hash EXCEPT ![w] = <<>>]
    /\ current_text' = [current_text EXCEPT ![w] = <<>>]
    /\ change_analysis' = [change_analysis EXCEPT ![w] = NoAnalysis]
    /\ time_since_last' = [time_since_last EXCEPT ![w] = 0]

\* _monitor_screen_changes returns and the thread ends: the locals of the
\* call (consecutive_errors, last_major_change) are gone
ThreadExit(w) ==
    /\ pc' = [pc EXCEPT ![w] = "done"]
    /\ consecutive_errors' = [consecutive_errors EXCEPT ![w] = 0]
    /\ since_last_major_change' = [since_last_major_change EXCEPT ![w] = min_interval]
    /\ wait_left' = [wait_left EXCEPT ![w] = 0]
    /\ tick_result' = [tick_result EXCEPT ![w] = "none"]
    /\ major_notified' = [major_notified EXCEPT ![w] = FALSE]

\* the test of the while loop
LoopTest(w) ==
    /\ pc[w] = "loop"
    /\ IF _monitoring_active /\ ~_stop_monitoring
       THEN /\ pc' = [pc EXCEPT ![w] = "capture"]
            /\ UNCHANGED <<consecutive_errors, since_last_major_change,
                           wait_left, history>>
       ELSE ThreadExit(w)
    /\ UNCHANGED <<runs, shared, baseline, caller, locals>>

\* capture_full_screen returns None: the error is counted and the worker
\* goes to wait for the next check
CaptureFails(w) ==
    /\ pc[w] = "capture"
    /\ consecutive_errors[w] < MaxErrorCount
    /\ consecutive_errors' = [consecutive_errors EXCEPT ![w] = @ + 1]
    /\ EndIteration(w, "no_capture")
    /\ UNCHANGED <<runs, shared, baseline, caller, since_last_major_change, major_notified>>

\* the frame on the screen is captured and hashed (hash_ok:
\* _calculate_visual_hash did not fail), and the visual gate decides between
\* OCR and the wait
Capture(w, frame, hash_ok) ==
    /\ pc[w] = "capture"
    /\ \E hash \in {IF hash_ok THEN FrameHash[frame] ELSE <<>>} :
           IF _has_significant_visual_change(hash, _last_visual_hash)
           THEN /\ pc' = [pc EXCEPT ![w] = "ocr"]
                /\ current_image' = [current_image EXCEPT ![w] = frame]
                /\ visual_hash' = [visual_hash EXCEPT ![w] = hash]
                /\ tick_result' = [tick_result EXCEPT ![w] = "none"]
                /\ UNCHANGED <<current_text, change_analysis, time_since_last, wait_left>>
           ELSE EndIteration(w, "no_visual_change")
    /\ UNCHANGED <<runs, shared, baseline, caller, consecutive_errors,
                   since_last_major_change, major_notified>>

\* extract_text_from_image returns a text that starts with OCR_ERROR:
\* nothing is counted
OcrFails(w) ==
    /\ pc[w] = "ocr"
    /\ EndIteration(w, "ocr_error")
    /\ UNCHANGED <<runs, shared, baseline, caller, consecutive_errors,
                   since_last_major_change, major_notified>>

\* extract_text_from_image returns the text of the captured frame, which is
\* never empty, and the error counter is reset
Ocr(w) ==
    /\ pc[w] = "ocr"
    /\ current_text' = [current_text EXCEPT ![w] = FrameText[current_image[w]]]
    /\ current_text'[w] # <<>> /\ ~StartsWith(current_text'[w], OCR_ERROR)
    /\ consecutive_errors' = [consecutive_errors EXCEPT ![w] = 0]
    /\ pc' = [pc EXCEPT ![w] = "analyze"]
    /\ UNCHANGED <<runs, shared, baseline, caller, since_last_major_change,
                   current_image, visual_hash, change_analysis, time_since_last,
                   wait_left, history>>

\* an accepted change that does not record the time of the notification
AnalyzeAccepted_KeepsTimestamp(w) ==
    /\ pc[w] = "analyze"
    /\ \E analysis \in {_analyze_screen_change(current_text[w], _last_screen_text)} :
           /\ analysis.is_significant
           /\ NotifyGate(analysis, since_last_major_change[w])
           /\ change_analysis' = [change_analysis EXCEPT ![w] = analysis]
    /\ time_since_last' = [time_since_last EXCEPT ![w] = since_last_major_change[w]]
    /\ _update_baseline_screen_data(current_text[w], visual_hash[w])
    /\ pc' = [pc EXCEPT ![w] = "callback"]
    /\ UNCHANGED <<runs, shared, caller, consecutive_errors, since_last_major_change,
                   current_image, visual_hash, current_text, wait_left, history>>

\* an accepted change that leaves the baseline as it was
AnalyzeAccepted_KeepsBaseline(w) ==
    /\ pc[w] = "analyze"
    /\ \E analysis \in {_analyze_screen_change(current_text[w], _last_screen_text)} :
           /\ analysis.is_significant
           /\ NotifyGate(analysis, since_last_major_change[w])
           /\ change_analysis' = [change_analysis EXCEPT ![w] = analysis]
    /\ time_since_last' = [time_since_last EXCEPT ![w] = since_last_major_change[w]]
    /\ since_last_major_change' = [since_last_major_change EXCEPT ![w] = 0]
    /\ pc' = [pc EXCEPT ![w] = "callback"]
    /\ UNCHANGED <<runs, shared, baseline, caller, consecutive_errors, current_image,
                   visual_hash, current_text, wait_left, history>>

\* the analysis is significant and passes the gate: the baseline is
\* replaced, the time is recorded and the callback is next
AnalyzeAccepted(w) ==
    /\ pc[w] = "analyze"
    /\ \E analysis \in {_analyze_screen_change(current_text[w], _last_screen_text)} :
           /\ analysis.is_significant
           /\ NotifyGate(analysis, since_last_major_change[w])
           /\ change_analysis' = [change_analysis EXCEPT ![w] = analysis]
    /\ time_since_last' = [time_since_last EXCEPT ![w] = since_last_major_change[w]]
    /\ _update_baseline_screen_data(current_text[w], visual_hash[w])
    /\ since_last_major_change' = [since_last_major_change EXCEPT ![w] = 0]
    /\ pc' = [pc EXCEPT ![w] = "callback"]
    /\ UNCHANGED <<runs, shared, caller, consecutive_errors, current_image,
                   visual_hash, current_text, wait_left, history>>

\* why an analysis does not lead to the callback
RejectedAs(analysis) ==
    IF ~analysis.is_significant THEN "not_significant"
    ELSE IF ~RGe(analysis.confidence, _confidence_threshold) THEN "low_confidence"
    ELSE "cooldown"

\* a rejection that stores the rejected text and fingerprint
AnalyzeRejected_UpdatesBaseline(w) ==
    /\ pc[w] = "analyze"
    /\ \E analysis \in {_analyze_screen_change(current_text[w], _last_screen_text)} :
           /\ ~(analysis.is_significant
                  /\ NotifyGate(analysis, since_last_major_change[w]))
           /\ EndIteration(w, RejectedAs(analysis))
    /\ _update_baseline_screen_data(current_text[w], visual_hash[w])
    /\ UNCHANGED <<runs, shared, caller, consecutive_errors,
                   since_last_major_change, major_notified>>

\* the analysis is not significant, or it is and the gate rejects it
AnalyzeRejected(w) ==
    /\ pc[w] = "analyze"
    /\ \E analysis \in {_analyze_screen_change(current_text[w], _last_screen_text)} :
           /\ ~(analysis.is_significant
                  /\ NotifyGate(analysis, since_last_major_change[w]))
           /\ EndIteration(w, RejectedAs(analysis))
    /\ UNCHANGED <<runs, shared, baseline, caller, consecutive_errors,
                   since_last_major_change, major_notified>>

\* an exception escapes the analysis to the handler of the loop
AnalyzeRaises(w) ==
    /\ pc[w] = "analyze"
    /\ pc' = [pc EXCEPT ![w] = "except"]
    /\ current_image' = [current_image EXCEPT ![w] = 0]
    /\ visual_hash' = [visual_hash EXCEPT ![w] = <<>>]
    /\ current_text' = [current_text EXCEPT ![w] = <<>>]
    /\ UNCHANGED <<runs, shared, baseline, caller, consecutive_errors,
                   since_last_major_change, change_analysis, time_since_last,
                   wait_left, history>>

\* a callback whose exception reaches the handler of the loop
Notify_ExceptionEscapes(w, raises) ==
    /\ pc[w] = "callback"
    /\ IF raises /\ _change_callback # "None"
       THEN /\ pc' = [pc EXCEPT ![w] = "except"]
            /\ UNCHANGED <<locals, wait_left, history>>
       ELSE /\ major_notified' = [major_notified EXCEPT ![w] =
                   _change_callback # "None" /\ change_analysis[w].is_major]
            /\ EndIteration(w, IF _change_callback # "None"
                               THEN "callback_returned" ELSE "no_callback")
    /\ UNCHANGED <<runs, shared, baseline, caller, consecutive_errors,
                   since_last_major_change>>

\* the callback, when one is registered, is called with the enriched text;
\* what it raises (raises = TRUE) is caught and logged, as is the TypeError
\* of calling a callback that stop cleared after the test
Notify(w, raises) ==
    /\ pc[w] = "callback"
    /\ IF _change_callback # "None"
       THEN /\ major_notified' = [major_notified EXCEPT ![w] = change_analysis[w].is_major]
            /\ EndIteration(w, IF raises THEN "callback_raised" ELSE "callback_returned")
       ELSE /\ ~raises
            /\ major_notified' = [major_notified EXCEPT ![w] = FALSE]
            /\ EndIteration(w, "no_callback")
    /\ UNCHANGED <<runs, shared, baseline, caller, consecutive_errors,
                   since_last_major_change>>

\* self._stop_monitoring.wait(interval) returns True: the event is set
WaitStopped(w) ==
    /\ pc[w] = "wait"
    /\ _stop_monitoring
    /\ ThreadExit(w)
    /\ UNCHANGED <<runs, shared, baseline, caller, locals>>

\* a wait that runs its interval out whether or not the event is set
WaitTimeout_IgnoresStop(w) ==
    /\ pc[w] = "wait"
    /\ wait_left[w] = 0
    /\ pc' = [pc EXCEPT ![w] = "loop"]
    /\ UNCHANGED <<runs, shared, baseline, caller, consecutive_errors,
                   since_last_major_change, locals, wait_left, history>>

\* self._stop_monitoring.wait(interval) returns False: the interval is over
WaitTimeout(w) ==
    /\ pc[w] = "wait"
    /\ ~_stop_monitoring
    /\ wait_left[w] = 0
    /\ pc' = [pc EXCEPT ![w] = "loop"]
    /\ UNCHANGED <<runs, shared, baseline, caller, consecutive_errors,
                   since_last_major_change, locals, wait_left, history>>

\* the except clause of the loop: the error is counted; at the limit the
\* worker clears the active flag and leaves, otherwise it sleeps a second
HandleException(w) ==
    /\ pc[w] = "except"
    /\ change_analysis' = [change_analysis EXCEPT ![w] = NoAnalysis]
    /\ IF consecutive_errors[w] + 1 >= max_consecutive_errors
       THEN /\ _monitoring_active' = FALSE
            /\ ThreadExit(w)
       ELSE /\ UNCHANGED _monitoring_active
            /\ consecutive_errors' = [consecutive_errors EXCEPT ![w] = @ + 1]
            /\ pc' = [pc EXCEPT ![w] = "sleep"]
            /\ wait_left' = [wait_left EXCEPT ![w] = retry_pause]
            /\ UNCHANGED <<since_last_major_change, history>>
    /\ UNCHANGED <<runs, tesseract_available, _stop_monitoring, _monitoring_thread,
                   _change_callback, baseline, caller,
                   current_image, visual_hash, current_text,
                   time_since_last>>

\* time.sleep(1) is over
SleepDone(w) ==
    /\ pc[w] = "sleep"
    /\ wait_left[w] = 0
    /\ pc' = [pc EXCEPT ![w] = "loop"]
    /\ UNCHANGED <<runs, shared, baseline, caller, consecutive_errors,
                   since_last_major_change, locals, wait_left, history>>

\* ------------------------------------------------------------------------
\* Specifications
\* ------------------------------------------------------------------------

\* what the worker w may do
Worker(w) ==
    \/ LoopTest(w)
    \/ CaptureFails(w)
    \/ \E frame \in Frames, hash_ok \in BOOLEAN : Capture(w, frame, hash_ok)
    \/ OcrFails(w)
    \/ Ocr(w)
    \/ AnalyzeAccepted(w)
    \/ AnalyzeRejected(w)
    \/ AnalyzeRaises(w)
    \/ \E raises \in BOOLEAN : Notify(w, raises)
    \/ WaitStopped(w)
    \/ WaitTimeout(w)
    \/ HandleException(w)
    \/ SleepDone(w)

\* Spec: every failure of capture, hashing, OCR, analysis and callback can
\* happen; monitoring is started again only once the worker of the run
\* before has ended.
Next ==
    \/ TimePasses(1)
    \/ StartIgnored
    \/ \E change_callback \in Callbacks \cup {"None"} :
          ~ThreadAlive /\ StartBegin(change_callback)
    \/ \E frame \in Frames \cup {0}, ocr_ok, hash_ok \in BOOLEAN :
          StartSpawn(frame, ocr_ok, hash_ok)
    \/ StopIgnored
    \/ StopBegin
    \/ StopJoined
    \/ \E w \in Workers : Worker(w)

Spec == Init /\ [][Next]_vars

\* what the worker w may do when nothing fails
WorkerNoFailure(w) ==
    \/ LoopTest(w)
    \/ \E frame \in Frames : Capture(w, frame, TRUE)
    \/ Ocr(w)
    \/ AnalyzeAccepted(w)
    \/ AnalyzeRejected(w)
    \/ Notify(w, FALSE)
    \/ WaitStopped(w)
    \/ WaitTimeout(w)

\* SpecOverlap: nothing fails and time is seen every min_interval seconds;
\* monitoring may be started again while the worker of the run before is
\* still alive (its join timed out).
NextOverlap ==
    \/ TimePasses(min_interval)
    \/ StartIgnored
    \/ \E change_callback \in Callbacks : StartBegin(change_callback)
    \/ \E frame \in Frames : StartSpawn(frame, TRUE, TRUE)
    \/ StopIgnored
    \/ StopBegin
    \/ StopJoined
    \/ \E w \in Workers : WorkerNoFailure(w)

SpecOverlap == Init /\ [][NextOverlap]_vars

\* ------------------------------------------------------------------------
\* SpecGating: the monitor run twice over the same frames at the same tick
\* times, the two runs differing in confidence_threshold only.  Captures,
\* hashing and OCR succeed; each run has the fields of the scanner and the
\* locals of the worker that the gate reads and writes.
\* ------------------------------------------------------------------------

\* values monitor_config may give confidence_threshold
ConfidenceThresholds == {<<30, 100>>, <<50, 100>>, <<60, 100>>}

\* seconds from the gate of one tick to the gate of the next: the wait of
\* _monitor_interval, or that and the time the tick itself takes
TickGaps == {_monitor_interval, min_interval}

\* the gate of _monitor_screen_changes for a given self._confidence_threshold
NotifyGateWith(confidence_threshold, analysis, elapsed) ==
    /\ RGe(analysis.confidence, confidence_threshold)
    /\ (analysis.is_major \/ elapsed >= min_interval)

\* a run after start_continuous_monitoring took its baseline from frame:
\* last_major_change = 0, no change accepted yet
StartedRun(confidence_threshold, frame) ==
    [confidence_threshold |-> confidence_threshold,
     last_screen_text |-> FrameText[frame],
     last_visual_hash |-> FrameHash[frame],
     since_last_major_change |-> min_interval,
     accepted |-> 0]

\* one iteration of the loop of _monitor_screen_changes in the run, with
\* frame on the screen, seconds after the iteration before; analysis is
\* what _analyze_screen_change makes of the frame's text and the run's
\* baseline, read only when the fingerprint has changed
Tick(run, frame, seconds, analysis) ==
    LET time_since == Min({run.since_last_major_change + seconds, min_interval})
        rejected == [run EXCEPT !.since_last_major_change = time_since]
    IN  IF ~_has_significant_visual_change(FrameHash[frame], run.last_visual_hash)
        THEN rejected
        ELSE IF /\ analysis.is_significant
                /\ NotifyGateWith(run.confidence_threshold, analysis, time_since)
        THEN [run EXCEPT !.last_screen_text = FrameText[frame],
                         !.last_visual_hash = FrameHash[frame],
                         !.since_last_major_change = 0,
                         !.accepted = @ + 1]
        ELSE rejected

InitGating ==
    /\ tesseract_available = TRUE
    /\ _monitoring_active = FALSE
    /\ _stop_monitoring = FALSE
    /\ _monitoring_thread = 0
    /\ _change_callback = "None"
    /\ _last_screen_text = <<>>
    /\ _last_visual_hash = <<>>
    /\ caller_pc = "idle"
    /\ join_left = 0
    /\ pc = [w \in Workers |-> "unborn"]
    /\ consecutive_errors = [w \in Workers |-> 0]
    /\ since_last_major_change = [w \in Workers |-> min_interval]
    /\ current_image = [w \in Workers |-> 0]
    /\ visual_hash = [w \in Workers |-> <<>>]
    /\ current_text = [w \in Workers |-> <<>>]
    /\ change_analysis = [w \in Workers |-> NoAnalysis]
    /\ time_since_last = [w \in Workers |-> 0]
    /\ wait_left = [w \in Workers |-> 0]
    /\ tick_result = [w \in Workers |-> "none"]
    /\ major_notified = [w \in Workers |-> FALSE]
    /\ \E frame \in Frames, low, high \in ConfidenceThresholds :
          /\ RLt(low, high)
          /\ runs = [ticks |-> 0,
                     low |-> StartedRun(low, frame),
                     high |-> StartedRun(high, frame)]

\* both runs make their next tick on the same frame at the same time
GatedTick(frame, seconds) ==
    /\ runs.ticks < MaxTicks
    /\ \E low \in {_analyze_screen_change(FrameText[frame], runs.low.last_screen_text)},
          high \in {_analyze_screen_change(FrameText[frame], runs.high.last_screen_text)} :
          runs' = [ticks |-> runs.ticks + 1,
                   low |-> Tick(runs.low, frame, seconds, low),
                   high |-> Tick(runs.high, frame, seconds, high)]
    /\ UNCHANGED <<shared, baseline, caller, pc, consecutive_errors,
                   since_last_major_change, locals, wait_left, history>>

NextGating == \E frame \in Frames, seconds \in TickGaps : GatedTick(frame, seconds)

SpecGating == InitGating /\ [][NextGating]_vars

\* ------------------------------------------------------------------------
\* SpecClassify: _analyze_screen_change applied to pairs of texts.  Worker 1
\* is at the call of line 946 with the OCR text of its iteration, which is
\* never empty there (line 942), and any baseline, the empty one included.
\* ------------------------------------------------------------------------

\* the texts: those of the frames, and
\*   "ab\ncd\nef"   "ab cd ef"   "xy"   "4%"
ClassifyTexts ==
    {FrameText[frame] : frame \in Frames}
        \cup {<<"a","b","\n","c","d","\n","e","f">>,
              <<"a","b"," ","c","d"," ","e","f">>,
              <<"x","y">>,
              <<"4","%">>}

InitClassify ==
    /\ tesseract_available = TRUE
    /\ _monitoring_active = TRUE
    /\ _stop_monitoring = FALSE
    /\ _monitoring_thread = 1
    /\ _change_callback \in Callbacks
    /\ _last_screen_text \in ClassifyTexts \cup {<<>>}
    /\ _last_visual_hash = <<>>
    /\ caller_pc = "idle"
    /\ join_left = 0
    /\ pc = [w \in Workers |-> IF w = 1 THEN "analyze" ELSE "unborn"]
    /\ consecutive_errors = [w \in Workers |-> 0]
    /\ since_last_major_change = [w \in Workers |-> min_interval]
    /\ current_image = [w \in Workers |-> 0]
    /\ visual_hash = [w \in Workers |-> <<>>]
    /\ \E text \in ClassifyTexts :
          current_text = [w \in Workers |-> IF w = 1 THEN text ELSE <<>>]
    /\ change_analysis = [w \in Workers |-> NoAnalysis]
    /\ time_since_last = [w \in Workers |-> 0]
    /\ wait_left = [w \in Workers |-> 0]
    /\ tick_result = [w \in Workers |-> "none"]
    /\ major_notified = [w \in Workers |-> FALSE]
    /\ runs = NoRuns

\* change_analysis = self._analyze_screen_change(current_text, visual_hash)
Classify(w) ==
    /\ pc[w] = "analyze"
    /\ change_analysis[w] = NoAnalysis
    /\ change_analysis' =
           [change_analysis EXCEPT
               ![w] = _analyze_screen_change(current_text[w], _last_screen_text)]
    /\ UNCHANGED <<runs, shared, baseline, caller, pc, consecutive_errors,
                   since_last_major_change, current_image, visual_hash, current_text,
                   time_since_last, wait_left, history>>

NextClassify == \E w \in Workers : Classify(w)

SpecClassify == InitClassify /\ [][NextClassify]_vars

\* ------------------------------------------------------------------------
\* SpecNormalize: _clean_text_for_comparison applied, and applied again, to
\* every short text over a few characters.  The text is that of worker 1 at
\* the call of line 946, where line 1060 normalizes it.
\* ------------------------------------------------------------------------

\* a digit, an animation character, the percent sign, a letter and a space
NormalizeAlphabet == {"1", "-", "%", "a", " "}

NormalizeTexts == UNION {[1..n -> NormalizeAlphabet] : n \in 0..MaxTextLen}

InitNormalize ==
    /\ tesseract_available = TRUE
    /\ _monitoring_active = TRUE
    /\ _stop_monitoring = FALSE
    /\ _monitoring_thread = 1
    /\ _change_callback \in Callbacks
    /\ _last_screen_text = <<>>
    /\ _last_visual_hash = <<>>
    /\ caller_pc = "idle"
    /\ join_left = 0
    /\ pc = [w \in Workers |-> IF w = 1 THEN "analyze" ELSE "unborn"]
    /\ consecutive_errors = [w \in Workers |-> 0]
    /\ since_last_major_change = [w \in Workers |-> min_interval]
    /\ current_image = [w \in Workers |-> 0]
    /\ visual_hash = [w \in Workers |-> <<>>]
    /\ \E text \in NormalizeTexts :
          current_text = [w \in Workers |-> IF w = 1 THEN text ELSE <<>>]
    /\ change_analysis = [w \in Workers |-> NoAnalysis]
    /\ time_since_last = [w \in Workers |-> 0]
    /\ wait_left = [w \in Workers |-> 0]
    /\ tick_result = [w \in Workers |-> "none"]
    /\ major_notified = [w \in Workers |-> FALSE]
    /\ runs = NoRuns

\* the text is replaced by self._clean_text_for_comparison(text)
Normalize(w) ==
    /\ pc[w] = "analyze"
    /\ current_text' =
           [current_text EXCEPT ![w] = _clean_text_for_comparison(current_text[w])]
    /\ UNCHANGED <<runs, shared, baseline, caller, pc, consecutive_errors,
                   since_last_major_change, current_image, visual_hash,
                   change_analysis, time_since_last, wait_left, history>>

NextNormalize == \E w \in Workers : Normalize(w)

SpecNormalize == InitNormalize /\ [][NextNormalize]_vars

\* ------------------------------------------------------------------------
\* SpecScenarios: _analyze_screen_change applied to the texts of the
\* scenarios, each as the OCR text of worker 1 at the call of line 946
\* against every baseline.
\* ------------------------------------------------------------------------

\* "Dashboard Home Welcome John": the baseline of Scenario C
DashboardHome ==
    <<"D","a","s","h","b","o","a","r","d"," ","H","o","m","e"," ","W","e","l",
      "c","o","m","e"," ","J","o","h","n">>

\* "Error: Access Denied. Please sign in.": the current text of Scenario C
AccessDenied ==
    <<"E","r","r","o","r",":"," ","A","c","c","e","s","s"," ","D","e","n","i",
      "e","d","."," ","P","l","e","a","s","e"," ","s","i","g","n"," ","i","n",
      ".">>

\* "Page 1 of 10 — Loading 45%": the baseline of Scenario B, the dash being U+2014
Loading45 ==
    <<"P","a","g","e"," ","1"," ","o","f"," ","1","0"," ","U+2014"," ","L",
      "o","a","d","i","n","g"," ","4","5","%">>

\* "Page 1 of 10 — Loading 46%": the current text of Scenario B
Loading46 ==
    <<"P","a","g","e"," ","1"," ","o","f"," ","1","0"," ","U+2014"," ","L",
      "o","a","d","i","n","g"," ","4","6","%">>

\* "Login Error": two indicator phrases, of new_page and of errors
LoginError ==
    <<"L","o","g","i","n"," ","E","r","r","o","r">>

\* "5%": a percentage figure alone
FivePercent ==
    <<"5","%">>

\* "Loading 9%" and "Loading 10%": the percentage gains a digit
Loading9 ==
    <<"L","o","a","d","i","n","g"," ","9","%">>

Loading10 ==
    <<"L","o","a","d","i","n","g"," ","1","0","%">>

ScenarioTexts ==
    {DashboardHome, AccessDenied, Loading45, Loading46,
     LoginError, FivePercent, Loading9, Loading10}

InitScenarios ==
    /\ tesseract_available = TRUE
    /\ _monitoring_active = TRUE
    /\ _stop_monitoring = FALSE
    /\ _monitoring_thread = 1
    /\ _change_callback \in Callbacks
    /\ _last_screen_text \in ScenarioTexts \cup ClassifyTexts
    /\ _last_visual_hash = <<>>
    /\ caller_pc = "idle"
    /\ join_left = 0
    /\ pc = [w \in Workers |-> IF w = 1 THEN "analyze" ELSE "unborn"]
    /\ consecutive_errors = [w \in Workers |-> 0]
    /\ since_last_major_change = [w \in Workers |-> min_interval]
    /\ current_image = [w \in Workers |-> 0]
    /\ visual_hash = [w \in Workers |-> <<>>]
    /\ \E text \in ScenarioTexts :
          current_text = [w \in Workers |-> IF w = 1 THEN text ELSE <<>>]
    /\ change_analysis = [w \in Workers |-> NoAnalysis]
    /\ time_since_last = [w \in Workers |-> 0]
    /\ wait_left = [w \in Workers |-> 0]
    /\ tick_result = [w \in Workers |-> "none"]
    /\ major_notified = [w \in Workers |-> FALSE]
    /\ runs = NoRuns

SpecScenarios == InitScenarios /\ [][NextClassify]_vars

\* ------------------------------------------------------------------------
\* SpecStill: the loop in front of a screen that no longer changes.  One
\* worker runs its iterations on the same frame, every capture, hashing and
\* OCR succeeds, a callback is registered and returns, and nobody calls
\* stop.  The run starts at the loop test with any baseline an earlier part
\* of the run can have left and any time since the last notification.  The
\* thread keeps running and time keeps passing.
\* ------------------------------------------------------------------------

\* the frame on the screen
StillFrame == 2

\* the baselines: text and fingerprint of one of the frames, the text of a
\* frame with the '' of a failed hashing, and none (the initial capture
\* failed)
StillBaselines ==
    {<<FrameText[frame], FrameHash[frame]>> : frame \in Frames}
        \cup {<<FrameText[frame], <<>>>> : frame \in Frames}
        \cup {<<<<>>, <<>>>>}

InitStill ==
    /\ tesseract_available = TRUE
    /\ _monitoring_active = TRUE
    /\ _stop_monitoring = FALSE
    /\ _monitoring_thread = 1
    /\ _change_callback \in Callbacks
    /\ \E stored \in StillBaselines :
          /\ _last_screen_text = stored[1]
          /\ _last_visual_hash = stored[2]
    /\ caller_pc = "idle"
    /\ join_left = 0
    /\ pc = [w \in Workers |-> IF w = 1 THEN "loop" ELSE "unborn"]
    /\ consecutive_errors = [w \in Workers |-> 0]
    /\ \E elapsed \in 0..min_interval :
          since_last_major_change =
              [w \in Workers |-> IF w = 1 THEN elapsed ELSE min_interval]
    /\ current_image = [w \in Workers |-> 0]
    /\ visual_hash = [w \in Workers |-> <<>>]
    /\ current_text = [w \in Workers |-> <<>>]
    /\ change_analysis = [w \in Workers |-> NoAnalysis]
    /\ time_since_last = [w \in Workers |-> 0]
    /\ wait_left = [w \in Workers |-> 0]
    /\ tick_result = [w \in Workers |-> "none"]
    /\ major_notified = [w \in Workers |-> FALSE]
    /\ runs = NoRuns

\* the steps of worker w in front of the still screen, the analysis apart
StillSteps(w) ==
    \/ LoopTest(w)
    \/ Capture(w, StillFrame, TRUE)
    \/ Ocr(w)
    \/ Notify(w, FALSE)
    \/ WaitTimeout(w)

\* what the worker w does in front of the still screen
WorkerStill(w) ==
    \/ StillSteps(w)
    \/ AnalyzeAccepted(w)
    \/ AnalyzeRejected(w)

NextStill ==
    \/ TimePasses(1)
    \/ \E w \in Workers : WorkerStill(w)

\* the analysis of worker w returns and the gate decides: the step
\* AnalyzeAccepted(w) or AnalyzeRejected(w), one of which is always possible,
\* as pc shows it
AnalysisEnds(w) ==
    /\ pc[w] = "analyze"
    /\ \E next \in {"callback", "wait"} : pc' = [pc EXCEPT ![w] = next]

\* time passes, and the thread of the worker is scheduled: none of its
\* steps is put off forever
SpecStill ==
    /\ InitStill
    /\ [][NextStill]_vars
    /\ WF_vars(TimePasses(1))
    /\ \A w \in Workers : WF_vars(StillSteps(w)) /\ WF_pc(AnalysisEnds(w))

\* ------------------------------------------------------------------------
\* SpecModerate: _analyze_screen_change applied to pairs of one-line texts
\* whose text similarity lies on and around the limit 0.3 between a major
\* and a moderate change, each as the OCR text of worker 1 at the call of
\* line 946.
\* ------------------------------------------------------------------------

\* "abcdefg" with "abcxyzw" (text similarity 0.3), "abwxyzu" (0.2),
\* "abcdefw" (0.6) and "abcdxyz" (0.4)
ModerateTexts ==
    {<<"a","b","c","d","e","f","g">>,
     <<"a","b","c","x","y","z","w">>,
     <<"a","b","w","x","y","z","u">>,
     <<"a","b","c","d","e","f","w">>,
     <<"a","b","c","d","x","y","z">>}

InitModerate ==
    /\ tesseract_available = TRUE
    /\ _monitoring_active = TRUE
    /\ _stop_monitoring = FALSE
    /\ _monitoring_thread = 1
    /\ _change_callback \in Callbacks
    /\ _last_screen_text \in ModerateTexts \cup ClassifyTexts
    /\ _last_visual_hash = <<>>
    /\ caller_pc = "idle"
    /\ join_left = 0
    /\ pc = [w \in Workers |-> IF w = 1 THEN "analyze" ELSE "unborn"]
    /\ consecutive_errors = [w \in Workers |-> 0]
    /\ since_last_major_change = [w \in Workers |-> min_interval]
    /\ current_image = [w \in Workers |-> 0]
    /\ visual_hash = [w \in Workers |-> <<>>]
    /\ \E text \in ModerateTexts \cup ClassifyTexts :
          current_text = [w \in Workers |-> IF w = 1 THEN text ELSE <<>>]
    /\ change_analysis = [w \in Workers |-> NoAnalysis]
    /\ time_since_last = [w \in Workers |-> 0]
    /\ wait_left = [w \in Workers |-> 0]
    /\ tick_result = [w \in Workers |-> "none"]
    /\ major_notified = [w \in Workers |-> FALSE]
    /\ runs = NoRuns

SpecModerate == InitModerate /\ [][NextClassify]_vars

TypeOK ==
    /\ _monitoring_active \in BOOLEAN
    /\ _monitoring_thread \in 0..MaxWorkers
    /\ \A w \in Workers :
          pc[w] \in {"unborn", "loop", "capture", "ocr", "analyze", "callback",
                     "wait", "except", "sleep", "done"}

\* ------------------------------------------------------------------------
\* Properties
\* ------------------------------------------------------------------------

\* the worker w is inside an iteration of the loop, between the capture and
\* the end of the callback
InTick(w) == pc[w] \in {"capture", "ocr", "analyze", "callback"}

\* what the gate of worker w is deciding on
AnalysisAt(w) == _analyze_screen_change(current_text[w], _last_screen_text)

\* the step is the decision of the gate of worker w on a completed analysis
GateDecides(w) == AnalyzeAccepted(w) \/ AnalyzeRejected(w)

\* the share of the positions at which two fingerprints of one length agree
FingerprintSimilarity(h1, h2) == <<Len(h1) - HammingDistance(h1, h2), Len(h1)>>

\* C1: at most one worker is inside a monitor tick at any time, whatever the
\* sequence of start and stop calls, a start after a stop whose join timed
\* out included.  The code does not keep this: the worker that outlives the
\* join goes on when start clears the stop event, next to the new worker.
C1_AtMostOneWorkerInTick ==
    \A w1, w2 \in Workers : InTick(w1) /\ InTick(w2) => w1 = w2

\* C2: a worker comes to the invocation of the callback only with a
\* classification that is significant and has a confidence of at least
\* _confidence_threshold.
C2_CallbackOnlyIfSignificantAndConfident ==
    \A w \in Workers :
        pc[w] = "callback" =>
            /\ change_analysis[w].is_significant
            /\ RGe(change_analysis[w].confidence, _confidence_threshold)

\* a moderate change is about to be notified to a registered callback
C2_Witness ==
    \E w \in Workers :
        /\ pc[w] = "callback"
        /\ _change_callback # "None"
        /\ change_analysis[w].is_significant
        /\ ~change_analysis[w].is_major

\* C3: on a tick with a captured frame, when the baseline fingerprint and
\* the fingerprint of the frame are both known and agree in at least
\* 1 - _visual_change_threshold of their positions, the tick ends without
\* OCR, classification or callback and leaves the baseline alone; when
\* either fingerprint is not known, the tick goes on to OCR.
C3_VisualGate ==
    [][\A w \in Workers, frame \in Frames, hash_ok \in BOOLEAN :
          Capture(w, frame, hash_ok) =>
              LET hash == IF hash_ok THEN FrameHash[frame] ELSE <<>>
              IN  /\ ( /\ hash # <<>>
                       /\ _last_visual_hash # <<>>
                       /\ RGe(FingerprintSimilarity(hash, _last_visual_hash),
                              ROneMinus(_visual_change_threshold)) )
                        => /\ pc'[w] = "wait"
                           /\ tick_result'[w] = "no_visual_change"
                           /\ current_text'[w] = <<>>
                           /\ change_analysis'[w] = NoAnalysis
                           /\ UNCHANGED baseline
                  /\ (hash = <<>> \/ _last_visual_hash = <<>>)
                        => pc'[w] = "ocr"]_vars

\* a tick ended at the visual gate although the frame may differ from the
\* baseline
C3_Witness ==
    \E w \in Workers :
        /\ tick_result[w] = "no_visual_change"
        /\ _last_visual_hash # <<>>

\* C4: a step of a worker changes the baseline text or the baseline
\* fingerprint only when it is the acceptance of a change by the gate: the
\* ticks stopped by the visual gate, by a failed capture or OCR, by a
\* classification that is not significant, or by the confidence or the
\* cooldown test leave both as they are.
C4_BaselineOnlyOnAcceptedChange ==
    [][\A w \in Workers :
          Worker(w) /\ ~AnalyzeAccepted(w) => UNCHANGED baseline]_vars

\* a tick was rejected by the gate and there is a baseline it left alone
C4_Witness ==
    \E w \in Workers :
        /\ tick_result[w] \in {"not_significant", "low_confidence", "cooldown"}
        /\ _last_screen_text # <<>>

\* C5: within the run of one worker, the gate rejects a significant change
\* that is not major when less than min_interval seconds have passed since
\* the change it accepted last, and accepts it, so that the callback is
\* next, when at least min_interval seconds have passed and its confidence
\* is at least _confidence_threshold.
C5_CooldownForModerateChanges ==
    [][\A w \in Workers :
          (GateDecides(w) /\ AnalysisAt(w).is_significant /\ ~AnalysisAt(w).is_major)
          => /\ since_last_major_change[w] < min_interval
                => /\ pc'[w] = "wait"
                   /\ tick_result'[w] \in {"low_confidence", "cooldown"}
             /\ ( /\ since_last_major_change[w] >= min_interval
                  /\ RGe(AnalysisAt(w).confidence, _confidence_threshold) )
                => pc'[w] = "callback"]_vars

\* a worker that notified a change had a later one, confident enough but
\* not major, held back by the cooldown
C5_Witness ==
    \E w \in Workers : tick_result[w] = "cooldown"

C7_MajorNotificationsSpaced ==
    [][\A w \in Workers, raises \in BOOLEAN :
          ( /\ Notify(w, raises)
            /\ _change_callback # "None"
            /\ change_analysis[w].is_major
            /\ major_notified[w] )
          => time_since_last[w] >= min_interval]_vars

\* C8: a worker whose ticks have failed max_consecutive_errors times in a
\* row has left its loop and cleared _monitoring_active; it starts no
\* further tick.  The code does not keep this: a capture that returns None
\* is counted but the limit is tested only in the except clause, and a
\* failed OCR is not counted.
C8_NoTickAfterFiveFailures ==
    \A w \in Workers :
        consecutive_errors[w] >= max_consecutive_errors
            => pc[w] \in {"unborn", "done"} /\ ~_monitoring_active

\* C9: a tick whose OCR reports an error adds one to the consecutive-error
\* counter.  The code does not do so: the error text of
\* extract_text_from_image only ends the tick.
C9_OcrFailureCounted ==
    [][\A w \in Workers :
          OcrFails(w) => consecutive_errors'[w] = consecutive_errors[w] + 1]_vars

\* C10: when the callback raises, the worker goes to the wait for its next
\* tick, _monitoring_active and the stop event are as before, and the
\* consecutive-error counter is as before.
C10_CallbackExceptionAbsorbed ==
    [][\A w \in Workers :
          (Notify(w, TRUE) /\ _change_callback # "None")
          => /\ pc'[w] = "wait"
             /\ consecutive_errors'[w] = consecutive_errors[w]
             /\ _monitoring_active' = _monitoring_active
             /\ _stop_monitoring' = _stop_monitoring]_vars

\* the callback raised in the tick before, monitoring is active and the
\* worker is in its next tick
C10_Witness ==
    \E w \in Workers :
        /\ tick_result[w] = "callback_raised"
        /\ pc[w] = "capture"
        /\ _monitoring_active

\* C11: a call of start_continuous_monitoring while monitoring is active, or
\* while Tesseract is not available, changes nothing.  From a state in which
\* the caller is free to call and one of the two holds, no step registers a
\* callback, sets the active flag, clears the stop event, enters the body of
\* start or spawns a worker; the baseline changes only where a worker accepts
\* a change; and without Tesseract no variable changes at all.
C11_StartIgnoredChangesNothing ==
    [][(caller_pc = "idle" /\ (_monitoring_active \/ ~tesseract_available)) =>
          /\ caller_pc' # "start"
          /\ _monitoring_thread' = _monitoring_thread
          /\ \A w \in Workers : pc[w] = "unborn" => pc'[w] = "unborn"
          /\ _change_callback' \in {_change_callback, "None"}
          /\ _monitoring_active' => _monitoring_active
          /\ _stop_monitoring => _stop_monitoring'
          /\ baseline' # baseline => \E w \in Workers : AnalyzeAccepted(w)
          /\ ~tesseract_available => UNCHANGED vars]_vars

\* monitoring is active with a live worker, a callback and a baseline, and
\* the caller is free to call start again
C11_Witness ==
    /\ caller_pc = "idle"
    /\ _monitoring_active
    /\ ThreadAlive
    /\ _change_callback # "None"
    /\ _last_screen_text # <<>>

\* C12: when Tesseract is not available, what a call of
\* start_continuous_monitoring gives its caller differs from what a
\* successful start gives it.
C12_UnavailableStartIsDistinguishable ==
    (caller_pc = "idle" /\ ~tesseract_available) =>
        start_continuous_monitoring(_monitoring_active, tesseract_available)
            # start_continuous_monitoring(FALSE, TRUE)

\* C13: the baseline text is set before the first tick of a run, so no
\* worker invokes the callback for a change classified initial_capture.
C13_NoInitialCaptureNotified ==
    \A w \in Workers :
        pc[w] = "callback" => change_analysis[w].type # "initial_capture"

\* C14: stop_continuous_monitoring is idempotent.  From a state in which
\* monitoring is not active and the caller is free to call, no step sets the
\* stop event, clears a registered callback or starts a join: a call of stop
\* there changes nothing.  And when a call of stop that found monitoring
\* active returns, monitoring is not active and the callback is cleared, so
\* that a second call in a row is such a call that changes nothing.
C14_StopIdempotent ==
    [][/\ (caller_pc = "idle" /\ ~_monitoring_active) =>
            /\ caller_pc' # "join"
            /\ _stop_monitoring' => _stop_monitoring
            /\ _change_callback' = "None" => _change_callback = "None"
            /\ join_left' = join_left
       /\ ((StopBegin \/ StopJoined) /\ caller_pc' = "idle") =>
            /\ ~_monitoring_active'
            /\ _change_callback' = "None"]_vars

\* a call of stop has returned after it joined a worker: monitoring is not
\* active, the event is set, the callback is cleared and the caller is free
\* to call stop again
C14_Witness ==
    /\ caller_pc = "idle"
    /\ ~_monitoring_active
    /\ _stop_monitoring
    /\ _monitoring_thread # 0
    /\ _change_callback = "None"

\* C15: the wait between two ticks is interruptible by stop.  A worker that
\* waits for its next tick while the stop event is set either still waits,
\* with the event still set, or has ended: it never goes on to another
\* capture.
C15_WaitInterruptedByStop ==
    [][\A w \in Workers :
          (pc[w] = "wait" /\ _stop_monitoring) =>
              \/ pc'[w] = "done"
              \/ pc'[w] = "wait" /\ _stop_monitoring']_vars

\* stop has set the event and joins a worker that is in its wait with part
\* of the interval still to go
C15_Witness ==
    \E w \in Workers :
        /\ pc[w] = "wait"
        /\ wait_left[w] > 0
        /\ _stop_monitoring
        /\ caller_pc = "join"

\* C16: when a call of stop_continuous_monitoring returns, the baseline
\* text and the baseline fingerprint of the run it ended are gone.
C16_BaselineGoneAfterStop ==
    [][(\/ StopBegin /\ caller_pc' = "idle"
        \/ StopJoined) =>
          /\ _last_screen_text' = <<>>
          /\ _last_visual_hash' = <<>>]_vars

\* the worker w has a change on its way to the callback: the gate has passed
\* and the baseline is updated (pc = "callback"), or the analysis the worker
\* is about to make passes the gate
ChangeOnItsWay(w) ==
    \/ pc[w] = "callback"
    \/ /\ pc[w] = "analyze"
       /\ \E analysis \in {_analyze_screen_change(current_text[w], _last_screen_text)} :
              /\ analysis.is_significant
              /\ NotifyGate(analysis, since_last_major_change[w])

\* C17: the callback is invoked exactly once for every accepted change.  A
\* registered callback is therefore not cleared while a worker has an
\* accepted change on its way to it: that change would update the baseline
\* and never be delivered.
C17_AcceptedChangeIsDelivered ==
    [][(_change_callback # "None" /\ _change_callback' = "None") =>
          \A w \in Workers : ~ChangeOnItsWay(w)]_vars

\* C18: over the same frames and tick times the run with the higher
\* confidence_threshold never has more accepted notifications than the run
\* with the lower one.
C18_HigherThresholdNeverMoreNotifications ==
    runs.high.accepted <= runs.low.accepted

\* equality and order of fractions
RSame(x, y) == x[1] * y[2] = y[1] * x[2]

RLe(x, y) == x[1] * y[2] <= y[1] * x[2]

\* the analysis is significant and major, of the type and the confidence
MajorOf(analysis, type, confidence) ==
    /\ analysis.is_significant
    /\ analysis.is_major
    /\ analysis.type = type
    /\ RSame(analysis.confidence, confidence)

\* C19: the classification takes the first of these that applies: no
\* baseline, initial_capture (major, confidence 1); text similarity under
\* 0.3, major_content_change with confidence 1 - text similarity; structure
\* similarity under 0.4, layout_change with confidence 1 - structure
\* similarity; major semantic changes, semantic_change with the semantic
\* confidence; text similarity under the similarity threshold,
\* content_update (significant, not major) with confidence (threshold -
\* text similarity) / threshold; otherwise minor_change, not significant,
\* confidence 0.  The confidence is between 0 and 1.
C19_DecisionOrder ==
    \A w \in Workers :
        (pc[w] = "analyze" /\ change_analysis[w] # NoAnalysis) =>
            LET analysis == change_analysis[w]
                text_similarity ==
                    _calculate_text_similarity(
                        _clean_text_for_comparison(current_text[w]),
                        _clean_text_for_comparison(_last_screen_text))
                structure_similarity ==
                    _calculate_structure_similarity(current_text[w], _last_screen_text)
                semantic_changes ==
                    _detect_semantic_changes(current_text[w], _last_screen_text)
            IN  /\ RLe(<<0, 1>>, analysis.confidence)
                /\ RLe(analysis.confidence, <<1, 1>>)
                /\ IF _last_screen_text = <<>>
                   THEN MajorOf(analysis, "initial_capture", <<1, 1>>)
                   ELSE IF RLt(text_similarity, <<3, 10>>)
                   THEN MajorOf(analysis, "major_content_change",
                                ROneMinus(text_similarity))
                   ELSE IF RLt(structure_similarity, <<4, 10>>)
                   THEN MajorOf(analysis, "layout_change",
                                ROneMinus(structure_similarity))
                   ELSE IF semantic_changes.has_major_changes
                   THEN MajorOf(analysis, "semantic_change",
                                semantic_changes.confidence)
                   ELSE IF RLt(text_similarity, _similarity_threshold)
                   THEN /\ analysis.is_significant
                        /\ ~analysis.is_major
                        /\ analysis.type = "content_update"
                        \* confidence * threshold = threshold - text_similarity
                        /\ analysis.confidence[1] * _similarity_threshold[1]
                               * text_similarity[2]
                             = analysis.confidence[2]
                               * (_similarity_threshold[1] * text_similarity[2]
                                    - text_similarity[1] * _similarity_threshold[2])
                   ELSE /\ ~analysis.is_significant
                        /\ ~analysis.is_major
                        /\ analysis.type = "minor_change"
                        /\ RSame(analysis.confidence, <<0, 1>>)

\* a pair of texts whose content is close and whose layout is not has been
\* classified, by the second test of the order
C19_Witness ==
    \E w \in Workers :
        /\ pc[w] = "analyze"
        /\ change_analysis[w].type = "layout_change"
        /\ ~RLt(_calculate_text_similarity(
                    _clean_text_for_comparison(current_text[w]),
                    _clean_text_for_comparison(_last_screen_text)), <<3, 10>>)

\* C20: the normalization is idempotent: normalizing the normalization of a
\* text gives the normalization of the text.
C20_NormalizeIdempotent ==
    \A w \in Workers :
        _clean_text_for_comparison(_clean_text_for_comparison(current_text[w]))
            = _clean_text_for_comparison(current_text[w])

\* C21: the text similarity is 0 when exactly one of the two texts is empty,
\* 1 when both are empty, and 1 for a non-empty text and itself.  The texts
\* are the two normalized texts that _analyze_screen_change compares.
C21_TextSimilarityOfEmptyAndEqual ==
    \A w \in Workers :
        (pc[w] = "analyze" /\ _last_screen_text # <<>>) =>
            LET a == _clean_text_for_comparison(current_text[w])
                b == _clean_text_for_comparison(_last_screen_text)
            IN  /\ (a = <<>>) # (b = <<>>) =>
                       RSame(_calculate_text_similarity(a, b), <<0, 1>>)
                /\ (a = <<>> /\ b = <<>>) =>
                       RSame(_calculate_text_similarity(a, b), <<1, 1>>)
                /\ a # <<>> => RSame(_calculate_text_similarity(a, a), <<1, 1>>)

\* the number of the phrases of category k that occur in text, whatever the
\* case of its letters
PhraseMatches(k, text) ==
    Cardinality({p \in 1..Len(Indicators[k][2]) :
                    Contains(Lower(text), Lower(Indicators[k][2][p]))})

RECURSIVE CategoryTenths(_, _, _)
\* 0.2 for each of the categories k..5 of which current matches more phrases
\* than last, 0.1 for each of which it matches fewer, in tenths
CategoryTenths(k, current, last) ==
    IF k > Len(Indicators) THEN 0
    ELSE (IF PhraseMatches(k, current) > PhraseMatches(k, last) THEN 2
          ELSE IF PhraseMatches(k, current) < PhraseMatches(k, last) THEN 1
          ELSE 0) + CategoryTenths(k + 1, current, last)

\* C22: the semantic comparison adds 0.2 for each category of which the new
\* text matches more indicator phrases than the old one and 0.1 for each of
\* which it matches fewer, and 0.3 for a change of title or URL; it reports
\* major changes exactly when the sum exceeds 0.3, and the sum capped at 1.0
\* as the confidence.  The code does not keep this: it searches the phrases,
\* written with capitals, in the lower-cased texts, where none is found.
C22_SemanticConfidencePerCategory ==
    \A w \in Workers :
        (pc[w] = "analyze" /\ change_analysis[w] # NoAnalysis) =>
            LET semantic_changes ==
                    _detect_semantic_changes(current_text[w], _last_screen_text)
                accumulated ==
                    CategoryTenths(1, current_text[w], _last_screen_text)
                    + (IF _detect_url_or_title_change(current_text[w], _last_screen_text)
                       THEN 3 ELSE 0)
            IN  /\ semantic_changes.has_major_changes = (accumulated > 3)
                /\ RSame(semantic_changes.confidence, <<Min({accumulated, 10}), 10>>)

\* C23: Scenario C.  With the baseline "Dashboard Home Welcome John" and the
\* current text "Error: Access Denied. Please sign in." the semantic
\* comparison finds more phrases of errors and of new_page in the current
\* text, reports major changes, and the classification is semantic_change,
\* major.  The code finds no phrase in either text and classifies the pair by
\* its text similarity, as major_content_change.
C23_ScenarioC ==
    \A w \in Workers :
        (/\ pc[w] = "analyze"
         /\ change_analysis[w] # NoAnalysis
         /\ current_text[w] = AccessDenied
         /\ _last_screen_text = DashboardHome) =>
            /\ IndicatorMatches(Indicators[3][2], Lower(AccessDenied))
                   > IndicatorMatches(Indicators[3][2], Lower(DashboardHome))
            /\ IndicatorMatches(Indicators[1][2], Lower(AccessDenied))
                   > IndicatorMatches(Indicators[1][2], Lower(DashboardHome))
            /\ _detect_semantic_changes(AccessDenied, DashboardHome).has_major_changes
            /\ change_analysis[w].type = "semantic_change"
            /\ change_analysis[w].is_major

\* the digit at position k of text belongs to a percentage figure
PercentDigitAt(text, k) ==
    IsDigitAt(text, k) /\ IsCharAt(text, k + DigitRun(text, k), "%")

RECURSIVE WithoutPercentDigitsFrom(_, _)
\* text from position k on, without the digits of its percentage figures
WithoutPercentDigitsFrom(text, k) ==
    IF k > Len(text) THEN <<>>
    ELSE (IF PercentDigitAt(text, k) THEN <<>> ELSE <<text[k]>>)
         \o WithoutPercentDigitsFrom(text, k + 1)

\* the two texts differ, and only in the digits of percentage figures
DifferOnlyInPercentDigits(text1, text2) ==
    /\ text1 # text2
    /\ WithoutPercentDigitsFrom(text1, 1) = WithoutPercentDigitsFrom(text2, 1)

\* C24: Scenario B.  When the current text and the baseline differ only in
\* the digits of a percentage figure, both normalize to the same string, the
\* text similarity is 1 and the classification is not significant.  The code
\* keeps this for the texts of the scenario, not for all: two texts that are
\* a percentage and nothing else normalize to the empty string, of which
\* the similarity is 0, and a figure that gains a digit changes the length of
\* its line, which the structure similarity takes for a change of layout.
C24_PercentDigitsAreNoise ==
    \A w \in Workers :
        (/\ pc[w] = "analyze"
         /\ change_analysis[w] # NoAnalysis
         /\ DifferOnlyInPercentDigits(current_text[w], _last_screen_text)) =>
            LET clean_current == _clean_text_for_comparison(current_text[w])
                clean_last == _clean_text_for_comparison(_last_screen_text)
            IN  /\ clean_current = clean_last
                /\ RSame(_calculate_text_similarity(clean_current, clean_last), <<1, 1>>)
                /\ ~change_analysis[w].is_significant

\* Scenario B itself: the pair of the scenario, classified
C24_ScenarioB ==
    \A w \in Workers :
        (/\ pc[w] = "analyze"
         /\ change_analysis[w] # NoAnalysis
         /\ current_text[w] = Loading46
         /\ _last_screen_text = Loading45) =>
            /\ _clean_text_for_comparison(Loading46) = _clean_text_for_comparison(Loading45)
            /\ RSame(_calculate_text_similarity(_clean_text_for_comparison(Loading46),
                                                _clean_text_for_comparison(Loading45)),
                     <<1, 1>>)
            /\ change_analysis[w].type = "minor_change"
            /\ ~change_analysis[w].is_significant

\* the iteration of worker w has ended without a failure of the capture, of
\* the OCR or of the callback, and w is waiting for the next one
ErrorFreeTickDone(w) ==
    /\ pc[w] = "wait"
    /\ tick_result[w] \in {"no_visual_change", "not_significant", "low_confidence",
                           "cooldown", "callback_returned", "no_callback"}

\* C25: the consecutive-error counter is zero after every tick that ends
\* without error, the tick that skips OCR on a visually unchanged frame
\* included, so that failures separated by such ticks never add up to the
\* limit.  The code resets the counter only once OCR has returned a text
\* (line 944): a tick that stops at the visual gate leaves it as it was.
C25_CounterZeroAfterErrorFreeTick ==
    \A w \in Workers : ErrorFreeTickDone(w) => consecutive_errors[w] = 0

\* the part of C25 that the code keeps: after a tick on which OCR returned a
\* text the counter is zero
C25_CounterZeroAfterOcr ==
    \A w \in Workers :
        (ErrorFreeTickDone(w) /\ tick_result[w] # "no_visual_change") =>
            consecutive_errors[w] = 0

\* the worker never leaves the loop through the limit of the except clause
C25_NeverSelfTerminates ==
    [][\A w \in Workers :
          HandleException(w) => consecutive_errors[w] + 1 < max_consecutive_errors]_vars

\* the run of worker w has been stopped and its stop_continuous_monitoring
\* has returned: a later run exists or is being started, or the scanner is
\* inactive with no call in progress (no worker ends its run by itself, see
\* C25_NeverSelfTerminates)
StopReturnedFor(w) ==
    /\ pc[w] # "unborn"
    /\ \/ w < _monitoring_thread
       \/ caller_pc = "start"
       \/ ~_monitoring_active /\ caller_pc = "idle"

\* C26: once stop_continuous_monitoring has returned, no invocation of the
\* callback by the worker of the stopped run begins, even when the join timed
\* out with the worker inside a tick.  This holds as long as monitoring is not
\* started again while that worker lives; when it is, the worker finds the
\* callback of the new run in self._change_callback and calls it.
C26_NoCallbackAfterStopReturned ==
    [][\A w \in Workers :
          ((\E raises \in BOOLEAN : Notify(w, raises)) /\ _change_callback # "None")
              => ~StopReturnedFor(w)]_vars

\* OCR is not running in any worker
NoOcr == \A w \in Workers : pc[w] # "ocr"

\* the visual gate holds the still frame back from OCR
StillSkipped ==
    ~_has_significant_visual_change(FrameHash[StillFrame], _last_visual_hash)

\* the still frame is a change that the gate lets through, at once or when
\* the cooldown is over
StillAcceptable ==
    \E analysis \in {_analyze_screen_change(FrameText[StillFrame], _last_screen_text)} :
        /\ analysis.is_significant
        /\ RGe(analysis.confidence, _confidence_threshold)

\* C27 as stated: in front of a screen that no longer changes the loop
\* comes to take the fingerprint-only branch on every tick, and OCR runs no
\* more, whatever the classification of the frame.  A frame that the visual
\* gate lets through and that is classified as not significant, or with a
\* confidence below the threshold, is rejected without a change of the
\* baseline and goes through OCR again on every tick.
C27_EventuallyFingerprintOnly == <>[]NoOcr

\* C27, amended: in front of a screen that no longer changes, once the
\* visual gate holds the frame back OCR runs no more; a frame that is a
\* significant change of sufficient confidence comes to be accepted, which
\* stores it as the baseline, and is held back from then on; a frame that
\* the visual gate lets through and that is not significant or of too low a
\* confidence goes through OCR again and again, forever.
C27_FingerprintOnlyOnceAccepted ==
    /\ [](StillSkipped => []NoOcr)
    /\ [](StillAcceptable => <>StillSkipped)
    /\ []((~StillSkipped /\ ~StillAcceptable) => []<>~NoOcr)

\* a major change of the still screen has been notified and a later tick
\* has ended at the visual gate
C27_Witness ==
    \E w \in Workers :
        /\ major_notified[w]
        /\ pc[w] = "wait"
        /\ tick_result[w] = "no_visual_change"
        /\ _last_screen_text = FrameText[StillFrame]

\* C28: a moderate change of sufficient confidence that the cooldown alone
\* has held back is not lost.  The rejection leaves the baseline as it was;
\* in front of the unchanged screen the change is analyzed again on the later
\* ticks, none of which rejects it for the cooldown once 5 seconds have
\* passed since the last notification, and it comes to be notified.
C28_SuppressedChangeNotifiedLater ==
    /\ [][\A w \in Workers :
             (AnalyzeRejected(w) /\ RejectedAs(AnalysisAt(w)) = "cooldown") =>
                 /\ since_last_major_change[w] < min_interval
                 /\ UNCHANGED baseline]_vars
    /\ [](\A w \in Workers :
             (pc[w] = "wait" /\ tick_result[w] = "cooldown") =>
                 <>( /\ pc[w] = "wait"
                     /\ tick_result[w] = "callback_returned"
                     /\ ~major_notified[w]
                     /\ _last_screen_text = FrameText[StillFrame]))

\* a tick has been rejected for the cooldown and the next tick starts when
\* the 5 seconds are over
C28_Witness ==
    \E w \in Workers :
        /\ pc[w] = "capture"
        /\ tick_result[w] = "cooldown"
        /\ since_last_major_change[w] >= min_interval

\* C29: on an accepted change the new baseline and the time of the
\* notification are stored before the callback is invoked, and they stay
\* whether the callback returns, raises or is not registered: while the
\* worker is at the callback and when it has left it, the last screen
\* content is the text of that tick, and the cooldown runs from that tick.
C29_CommittedBeforeCallback ==
    /\ [][\A w \in Workers :
             AnalyzeAccepted(w) =>
                 /\ pc'[w] = "callback"
                 /\ _last_screen_text' = current_text[w]
                 /\ _last_visual_hash' = visual_hash[w]
                 /\ since_last_major_change'[w] = 0]_vars
    /\ [](\A w \in Workers :
             pc[w] = "callback" =>
                 /\ _last_screen_text = current_text[w]
                 /\ _last_visual_hash = visual_hash[w])
    /\ [][\A w \in Workers :
             (\E raises \in BOOLEAN : Notify(w, raises)) =>
                 /\ _last_screen_text' = current_text[w]
                 /\ _last_visual_hash' = visual_hash[w]
                 /\ since_last_major_change'[w] = since_last_major_change[w]]_vars

\* the callback of an accepted change has raised, or none was registered,
\* the text of that tick is the last screen content and the cooldown is
\* running
C29_Witness ==
    \E w \in Workers :
        /\ pc[w] = "wait"
        /\ tick_result[w] \in {"callback_raised", "no_callback"}
        /\ _last_screen_text # <<>>
        /\ since_last_major_change[w] < min_interval

\* the text similarity of the texts that worker w is comparing
TextSimilarityAt(w) ==
    _calculate_text_similarity(_clean_text_for_comparison(current_text[w]),
                               _clean_text_for_comparison(_last_screen_text))

\* (similarity_threshold - 0.3) / similarity_threshold
ModerateConfidenceLimit ==
    <<10 * _similarity_threshold[1] - 3 * _similarity_threshold[2],
      10 * _similarity_threshold[1]>>

\* the analysis of worker w is done and the change is a content_update
ModerateAt(w) ==
    /\ pc[w] = "analyze"
    /\ change_analysis[w] # NoAnalysis
    /\ change_analysis[w].type = "content_update"

\* C30 as stated: the confidence of every content_update is strictly below
\* (similarity_threshold - 0.3) / similarity_threshold.  A text similarity of
\* exactly 0.3 is not below 0.3: the change is a content_update and its
\* confidence is that limit itself.
C30_ModerateConfidenceStrictlyBelow ==
    \A w \in Workers :
        ModerateAt(w) => RLt(change_analysis[w].confidence, ModerateConfidenceLimit)

\* C30, amended: the confidence of every content_update is at most
\* (similarity_threshold - 0.3) / similarity_threshold, the text similarity
\* being at least 0.3, and equals it when the text similarity is 0.3; with
\* the thresholds 0.85 and 0.5 a content_update passes the gate only when
\* the text similarity is at most 0.425, and with a confidence threshold of
\* 0.65 or more none passes.
C30_ModerateConfidenceAtMost ==
    \A w \in Workers :
        ModerateAt(w) =>
            /\ RGe(TextSimilarityAt(w), <<3, 10>>)
            /\ RLe(change_analysis[w].confidence, ModerateConfidenceLimit)
            /\ RSame(TextSimilarityAt(w), <<3, 10>>)
                   <=> RSame(change_analysis[w].confidence, ModerateConfidenceLimit)
            /\ NotifyGate(change_analysis[w], min_interval)
                   => RLe(TextSimilarityAt(w), <<425, 1000>>)
            /\ \A confidence_threshold \in {<<65, 100>>, <<80, 100>>, <<1, 1>>} :
                   ~NotifyGateWith(confidence_threshold, change_analysis[w], min_interval)

\* a content_update of text similarity 0.3, its confidence the limit, that
\* passes the gate of the default thresholds
C30_Witness ==
    \E w \in Workers :
        /\ ModerateAt(w)
        /\ RSame(TextSimilarityAt(w), <<3, 10>>)
        /\ RSame(change_analysis[w].confidence, ModerateConfidenceLimit)
        /\ NotifyGate(change_analysis[w], min_interval)

====
